---- MODULE Spec2Model ----
(***************************************************************************)
(* State-machine model of the DeliverableEstimatePro3 workflow engine:     *)
(* state_manager.py (the EstimationState dict and its update functions),   *)
(* workflow_orchestrator_simple.py (parallel evaluation, its fallback,     *)
(* estimation generation, the user interaction loop and refinement) and    *)
(* main.py (the caller of execute_workflow and the result output).         *)
(*                                                                         *)
(* Python dicts are records; a missing key is a key outside DOMAIN.        *)
(* Wall-clock fields (timestamp, execution_time) are left out of the       *)
(* records.  Text typed by the user is a sequence of one-character         *)
(* strings, so that strip() and lower() are computed, not assumed.         *)
(***************************************************************************)
EXTENDS Integers, Sequences, FiniteSets, TLC

VARIABLES
    state,        \* the EstimationState dict threaded through the stages
    pc,           \* position of the main thread in run()/execute_workflow
    futures,      \* the three submitted futures of the current executor
    results,      \* the stage-local `results` dict, in insertion order (empty outside a stage)
    iteration,    \* the loop counter of _execute_user_interaction_loop
    decisions,    \* classification of each answer given at the approval prompt
    calls,        \* number of invocations of each evaluator operation
    final_state,  \* run()'s final_state: what execute_workflow returned
    files,        \* the output files written by main.py
    gate,         \* <<b>> once is_evaluation_complete has returned b, else <<>>
    faults,       \* which kinds of failure or exception have happened in this run
    call,         \* one evaluator call followed through its retry loop (agent, attempt, result)
    env,          \* the environment configuration read at import (CURRENCY)
    report,       \* what was last reported: the console display or the sheet's Total row
    row           \* the row of the input sheet being read (name, description, category)

vars ==
    <<state, pc, futures, results, iteration, decisions, calls, final_state, files, gate, faults,
      call, env, report, row>>

-----------------------------------------------------------------------------
(* Bounds and program constants *)

\* number of distinct estimates the Estimation evaluator may answer with
MaxVer == 2

\* workflow_orchestrator_simple.py:412
max_iterations == 3

-----------------------------------------------------------------------------
(* Python values *)

None == [py_none |-> TRUE]

EmptyDict == [k \in {} |-> TRUE]

IsNone(v) == DOMAIN v = {"py_none"}

\* `not v` for a value that is None or a dict
Falsy(v) == IsNone(v) \/ DOMAIN v = {}

\* d.get(k, default)
Get(d, k, default) == IF k \in DOMAIN d THEN d[k] ELSE default

\* truthiness of d.get("success") for a dict d
GetSuccess(d) == IF "success" \in DOMAIN d THEN d.success = TRUE ELSE FALSE

IsPrefix(s, t) == Len(s) <= Len(t) /\ SubSeq(t, 1, Len(s)) = s

Last(s) == s[Len(s)]

-----------------------------------------------------------------------------
(* Text: str.lower(), str.strip(), substring test *)

UpperToLower ==
    [c \in {"A", "B", "C", "D", "E", "F", "G", "H", "I", "J", "K", "L", "M", "N", "O", "P",
      "Q", "R", "S", "T", "U", "V", "W", "X", "Y", "Z"} |->
        CASE c = "A" -> "a"
          [] c = "B" -> "b"
          [] c = "C" -> "c"
          [] c = "D" -> "d"
          [] c = "E" -> "e"
          [] c = "F" -> "f"
          [] c = "G" -> "g"
          [] c = "H" -> "h"
          [] c = "I" -> "i"
          [] c = "J" -> "j"
          [] c = "K" -> "k"
          [] c = "L" -> "l"
          [] c = "M" -> "m"
          [] c = "N" -> "n"
          [] c = "O" -> "o"
          [] c = "P" -> "p"
          [] c = "Q" -> "q"
          [] c = "R" -> "r"
          [] c = "S" -> "s"
          [] c = "T" -> "t"
          [] c = "U" -> "u"
          [] c = "V" -> "v"
          [] c = "W" -> "w"
          [] c = "X" -> "x"
          [] c = "Y" -> "y"
          [] c = "Z" -> "z"]

lower(s) == [i \in 1..Len(s) |-> IF s[i] \in DOMAIN UpperToLower THEN UpperToLower[s[i]] ELSE s[i]]

RECURSIVE lstrip(_)
lstrip(s) == IF s # <<>> /\ Head(s) = " " THEN lstrip(Tail(s)) ELSE s

RECURSIVE rstrip(_)
rstrip(s) == IF s # <<>> /\ Last(s) = " " THEN rstrip(SubSeq(s, 1, Len(s) - 1)) ELSE s

strip(s) == rstrip(lstrip(s))

\* `sub in s`
Contains(s, sub) ==
    \E i \in 0..(Len(s) - Len(sub)) : SubSeq(s, i + 1, i + Len(sub)) = sub

ApproveTokens == { <<"y">>, <<"y", "e", "s">>, <<"a", "p", "p", "r", "o", "v", "e">> }

RejectTokens == { <<"n">>, <<"n", "o">>, <<"r", "e", "j", "e", "c", "t">> }

\* what the user may type at the approval prompt
RawResponses ==
    { <<"Y">>, <<"y", "e", "s", " ">>, <<"A", "p", "p", "r", "o", "v", "e">>,
      <<"n">>, <<" ", "N", "O">>, <<"r", "e", "j", "e", "c", "t">>,
      <<" ">>, <<"F", "a", "s", "t", " ">> }

\* what the user may type at the feedback prompt
RawFeedbacks == { <<>>, <<"S", "e", "c", "u", "r", "i", "t", "y">> }

-----------------------------------------------------------------------------
(* Evaluators: the results an evaluator call can produce *)

AgentTypeSet == {"business", "quality", "constraints"}

AgentName(agent_type) ==
    CASE agent_type = "business" -> "BusinessRequirementsAgent"
      [] agent_type = "quality" -> "QualityRequirementsAgent"
      [] agent_type = "constraints" -> "ConstraintsAgent"

Returned(v) == [kind |-> "returned", value |-> v]

Raised(msg) == [kind |-> "raised", msg |-> msg]

Pending == [kind |-> "pending"]

\* the future of an evaluator call that never returns
Hung == [kind |-> "hung"]

SuccessResult(agent_type) ==
    [success |-> TRUE, evaluation |-> agent_type,
     _agent_metadata |-> [attempt_number |-> 1]]

\* _create_error_response
ErrorResponse(msg) ==
    [success |-> FALSE, error |-> msg, _agent_metadata |-> [status |-> "error"]]

\* an evaluator call returns a success, returns an error response, or raises
EvaluatorOutcomes(agent_type) ==
    { Returned(SuccessResult(agent_type)),
      Returned(ErrorResponse("evaluation failed")),
      Raised("boom") }

\* the texts of development_stack used below
Text_Python ==
    <<"P", "y", "t", "h", "o", "n">>

Text_ReactStack ==
    <<"R", "e", "a", "c", "t", ",", " ", "E", "x", "p", "r", "e", "s", "s", ".", "j", "s",
      ",", " ", "P", "o", "s", "t", "g", "r", "e", "S", "Q", "L">>

TechnicalAssumptions(v) == [development_stack |-> Text_Python, revision |-> v]

\* DeliverableEstimate records.  Effort is counted in tenths of a person-day, money in
\* hundredths of the currency unit, confidence in hundredths.
Item_API ==
    [name |-> "API", final_effort_days |-> 100, cost |-> 50000000, confidence_score |-> 90]

Item_UI ==
    [name |-> "UI", final_effort_days |-> 131, cost |-> 60500050, confidence_score |-> 75]

\* the n-th answer of the Estimation evaluator: its line items and the totals it claims
DeliverableEstimates(v) == IF v = 1 THEN <<Item_API>> ELSE <<Item_API, Item_UI>>

ClaimedSummary(v) ==
    IF v = 1 THEN [total_effort_days |-> 100, total |-> 55000000]
    ELSE [total_effort_days |-> 200 + 25 * v, total |-> 137500000]

EstimateResult(v) ==
    [success |-> TRUE,
     estimation_result |-> [version |-> v,
                            deliverable_estimates |-> DeliverableEstimates(v),
                            financial_summary |-> ClaimedSummary(v),
                            technical_assumptions |-> TechnicalAssumptions(v)],
     _agent_metadata |-> [attempt_number |-> 1]]

EstimationOutcomes ==
    { Returned(EstimateResult(v)) : v \in 1..MaxVer }
      \cup { Returned(ErrorResponse("estimation failed")), Raised("boom") }

-----------------------------------------------------------------------------
(* agents/: one evaluator call with its bounded retries.  Business and Estimation *)
(* are PydanticAIAgent subclasses, Quality and Constraints BaseAIAgent subclasses. *)
(* Effort is counted in tenths of a person-day, confidence in hundredths.          *)

\* pydantic_agent_base.py:37 and base_ai_agent.py:20
max_retries == 3

AgentKinds == {"business", "quality", "constraints", "estimation"}

PydanticAgents == {"business", "estimation"}

\* the key under which an evaluator returns its findings
PayloadKey(agent) ==
    CASE agent = "business" -> "business_evaluation"
      [] agent = "quality" -> "quality_evaluation"
      [] agent = "constraints" -> "constraints_evaluation"
      [] agent = "estimation" -> "estimation_result"

\* execute_with_pydantic, lines 93-104: the parsed model as a dict, flagged and stamped
pydantic_result(agent, attempt) ==
    IF agent = "estimation"
    THEN [success |-> TRUE,
          deliverable_estimates |->
              <<[name |-> "API", final_effort_days |-> 100, cost |-> 500000,
                 confidence_score |-> 90]>>,
          financial_summary |-> [total_effort_days |-> 100, total |-> 550000],
          technical_assumptions |-> [development_stack |-> Text_Python],
          _agent_metadata |-> [agent_name |-> agent, attempt_number |-> attempt + 1,
                               model_used |-> "gpt-4o-mini"]]
    ELSE [success |-> TRUE,
          overall_score |-> 80,
          _agent_metadata |-> [agent_name |-> agent, attempt_number |-> attempt + 1,
                               model_used |-> "gpt-4o-mini"]]

\* mutant: the placeholder carries no status
create_dummy_response_unmarked(agent) ==
    [success |-> TRUE,
     overall_score |-> 75,
     deliverable_estimates |-> <<>>,
     _agent_metadata |-> [agent_name |-> agent]]

\* _create_dummy_business_evaluation and _create_dummy_estimation_result
create_dummy_response(agent) ==
    IF agent = "estimation"
    THEN [success |-> TRUE,
          deliverable_estimates |->
              <<[name |-> "Requirements Definition Document", final_effort_days |-> 66,
                 cost_jpy |-> 330000, confidence_score |-> 80],
                [name |-> "System Design Document", final_effort_days |-> 125,
                 cost_jpy |-> 625000, confidence_score |-> 75]>>,
          financial_summary |-> [total_effort_days |-> 2450, total_jpy |-> 13475000],
          technical_assumptions |-> [development_stack |-> Text_ReactStack],
          _agent_metadata |-> [agent_name |-> agent, status |-> "dummy"]]
    ELSE [success |-> TRUE,
          overall_score |-> 75,
          _agent_metadata |-> [agent_name |-> agent, status |-> "dummy"]]

\* _create_error_response of both base classes
create_error_response(agent, error_message) ==
    [success |-> FALSE, error |-> error_message, agent_name |-> agent,
     _agent_metadata |-> [agent_name |-> agent, status |-> "error"]]

\* evaluate_business_requirements / generate_estimate: a successful result is wrapped
\* under the payload key, its metadata kept; anything else is passed on
wrap_pydantic(agent, result) ==
    IF GetSuccess(result)
    THEN (PayloadKey(agent) :> [k \in (DOMAIN result) \ {"success", "_agent_metadata"} |-> result[k]])
           @@ [success |-> TRUE, _agent_metadata |-> Get(result, "_agent_metadata", EmptyDict)]
    ELSE result

\* execute_with_ai, lines 35-57: the JSON object the model answered, stamped; whether it
\* has "success" and the payload key is up to the model
ai_result(agent, reply, attempt) ==
    LET stamp == [_agent_metadata |-> [agent_name |-> agent, attempt_number |-> attempt + 1,
                                       model_used |-> "gpt-4o-mini"]]
    IN CASE reply = "complete" ->
              (PayloadKey(agent) :> [overall_score |-> 70]) @@ [success |-> TRUE] @@ stamp
         [] reply = "no_success" -> (PayloadKey(agent) :> [overall_score |-> 70]) @@ stamp
         [] reply = "no_payload" -> [success |-> TRUE] @@ stamp

Replies == {"complete", "no_success", "no_payload"}

\* BaseAIAgent.validate_response
validate_response(response, required_key) ==
    /\ Get(response, "success", FALSE) = TRUE
    /\ required_key \in DOMAIN response

\* evaluate_quality_requirements / evaluate_constraints after execute_with_ai
validated(agent, result) ==
    IF validate_response(result, PayloadKey(agent))
    THEN result
    ELSE create_error_response(agent, "Invalid format for evaluation results")

\* what an evaluator returns when its last attempt has failed: PydanticAIAgent
\* substitutes the dummy response (the error message is dropped), BaseAIAgent answers
\* with an error response
exhausted_result(agent, failure) ==
    IF agent \in PydanticAgents
    THEN wrap_pydantic(agent, create_dummy_response(agent))
    ELSE validated(agent, create_error_response(agent, failure \o " failed"))

-----------------------------------------------------------------------------
(* state_manager.py *)

create_initial_state ==
    [excel_input |-> "input.xlsx",
     system_requirements |-> "requirements",
     deliverables_memory |-> "deliverables",
     current_step |-> "initialized",
     iteration_count |-> 0,
     session_logs |-> <<>>,
     errors |-> <<>>,
     warnings |-> <<>>,
     user_approved |-> FALSE,
     user_feedback |-> <<>>,
     iteration_history |-> <<>>,
     business_evaluation |-> None,
     quality_evaluation |-> None,
     constraints_evaluation |-> None,
     estimation_result |-> None,
     previous_evaluation_results |-> EmptyDict]

LogEntry(agent_name, result) ==
    [agent_name |-> agent_name,
     success |-> Get(result, "success", FALSE),
     attempt_number |-> Get(Get(result, "_agent_metadata", EmptyDict), "attempt_number", 1)]

log_agent_execution(s, agent_name, result) ==
    IF ~GetSuccess(result)
    THEN LET error == Get(result, "error", "Unknown error")
         IN [s EXCEPT
               !.errors = Append(s.errors, agent_name \o ": " \o error),
               !.session_logs =
                   Append(s.session_logs, LogEntry(agent_name, result) @@ [error |-> error])]
    ELSE [s EXCEPT !.session_logs = Append(s.session_logs, LogEntry(agent_name, result))]

update_evaluation_result(s, agent_name, result) ==
    IF ~GetSuccess(result) THEN s
    ELSE CASE agent_name = "BusinessRequirementsAgent" -> [s EXCEPT !.business_evaluation = result]
           [] agent_name = "QualityRequirementsAgent" -> [s EXCEPT !.quality_evaluation = result]
           [] agent_name = "ConstraintsAgent" -> [s EXCEPT !.constraints_evaluation = result]
           [] agent_name = "EstimationAgent" -> [s EXCEPT !.estimation_result = result]
           [] OTHER -> s

required_evaluations == <<"business_evaluation", "quality_evaluation", "constraints_evaluation">>

\* mutant: the success flag of the stored results is not looked at
is_evaluation_complete_ignoring_success(s) ==
    \A i \in 1..Len(required_evaluations) : ~Falsy(Get(s, required_evaluations[i], None))

\* the loop of is_evaluation_complete: the first falsy or unsuccessful slot returns False
is_evaluation_complete(s) ==
    \A i \in 1..Len(required_evaluations) :
        LET eval_result == Get(s, required_evaluations[i], None)
        IN ~Falsy(eval_result) /\ GetSuccess(eval_result)

Keyword_response == <<"r", "e", "s", "p", "o", "n", "s", "e">>

Keyword_performance == <<"p", "e", "r", "f", "o", "r", "m", "a", "n", "c", "e">>

Keyword_library == <<"l", "i", "b", "r", "a", "r", "y">>

Keyword_platform == <<"p", "l", "a", "t", "f", "o", "r", "m">>

Keyword_security == <<"s", "e", "c", "u", "r", "i", "t", "y">>

changes_summary(user_feedback) ==
    IF user_feedback = <<>> THEN <<>>
    ELSE (IF Contains(lower(user_feedback), Keyword_response)
             \/ Contains(lower(user_feedback), Keyword_performance)
          THEN <<"Performance requirements updated">> ELSE <<>>)
         \o (IF Contains(lower(user_feedback), Keyword_library)
                \/ Contains(lower(user_feedback), Keyword_platform)
             THEN <<"Technology stack updated">> ELSE <<>>)
         \o (IF Contains(lower(user_feedback), Keyword_security)
             THEN <<"Security requirements updated">> ELSE <<>>)

iteration_entry(s, user_feedback) ==
    [iteration_number |-> s.iteration_count + 1,
     user_feedback |-> user_feedback,
     business_evaluation |-> s.business_evaluation,
     quality_evaluation |-> s.quality_evaluation,
     constraints_evaluation |-> s.constraints_evaluation,
     estimation_result |-> s.estimation_result,
     session_logs |-> s.session_logs,
     errors |-> s.errors,
     warnings |-> s.warnings]

\* state.get("estimation_result", {}) yields the stored None, and None.get raises
NoneTypeError == "'NoneType' object has no attribute 'get'"

\* mutant: a missing estimate is snapshotted like any other
save_iteration_to_history_of_none(s, user_feedback) ==
    Returned([s EXCEPT
        !.iteration_history = Append(s.iteration_history, iteration_entry(s, user_feedback)),
        !.previous_evaluation_results =
            [business_evaluation |-> s.business_evaluation,
             quality_evaluation |-> s.quality_evaluation,
             constraints_evaluation |-> s.constraints_evaluation]])

\* mutant: the snapshot is not tagged with the modification request
save_iteration_to_history_untagged(s, user_feedback) ==
    IF IsNone(s.estimation_result)
    THEN Raised(NoneTypeError)
    ELSE Returned([s EXCEPT
            !.iteration_history = Append(s.iteration_history, iteration_entry(s, <<>>)),
            !.previous_evaluation_results =
                [business_evaluation |-> s.business_evaluation,
                 quality_evaluation |-> s.quality_evaluation,
                 constraints_evaluation |-> s.constraints_evaluation]])

save_iteration_to_history(s, user_feedback) ==
    IF IsNone(s.estimation_result)
    THEN Raised(NoneTypeError)
    ELSE LET entry ==
               IF GetSuccess(s.estimation_result)
               THEN iteration_entry(s, user_feedback)
                      @@ [technical_assumptions |->
                              Get(Get(s.estimation_result, "estimation_result", EmptyDict),
                                  "technical_assumptions", EmptyDict),
                          changes_summary |-> changes_summary(user_feedback)]
               ELSE iteration_entry(s, user_feedback)
         IN Returned([s EXCEPT
                !.iteration_history = Append(s.iteration_history, entry),
                !.previous_evaluation_results =
                    [business_evaluation |-> s.business_evaluation,
                     quality_evaluation |-> s.quality_evaluation,
                     constraints_evaluation |-> s.constraints_evaluation]])

\* mutant: the list is replaced instead of extended
add_error_overwriting(s, error_message) == [s EXCEPT !.errors = <<error_message>>]

add_error(s, error_message) == [s EXCEPT !.errors = Append(s.errors, error_message)]

-----------------------------------------------------------------------------
(* workflow_orchestrator_simple.py: the stages as functions of the state *)

HasResult(res, agent_type) == \E i \in 1..Len(res) : res[i].agent_type = agent_type

ResultOf(res, agent_type) ==
    (CHOOSE i \in 1..Len(res) : res[i].agent_type = agent_type) 

\* results[agent_type] = result
PutResult(res, agent_type, result) ==
    IF HasResult(res, agent_type)
    THEN [i \in 1..Len(res) |->
            IF res[i].agent_type = agent_type THEN [res[i] EXCEPT !.result = result] ELSE res[i]]
    ELSE Append(res, [agent_type |-> agent_type, result |-> result])

\* mutant: the result is stored whether it succeeded or not
reflect_result_storing_failures(s, agent_type, result) ==
    LET logged == log_agent_execution(s, AgentName(agent_type), result)
    IN CASE agent_type = "business" -> [logged EXCEPT !.business_evaluation = result]
         [] agent_type = "quality" -> [logged EXCEPT !.quality_evaluation = result]
         [] agent_type = "constraints" -> [logged EXCEPT !.constraints_evaluation = result]

\* log the result, and store it when it is a success
reflect_result(s, agent_type, result) ==
    LET logged == log_agent_execution(s, AgentName(agent_type), result)
    IN IF GetSuccess(result)
       THEN update_evaluation_result(logged, AgentName(agent_type), result)
       ELSE logged

reflect_if_present(s, res, agent_type) ==
    IF HasResult(res, agent_type)
    THEN reflect_result(s, agent_type, res[ResultOf(res, agent_type)].result)
    ELSE s

\* mutant: nothing is stored unless all three evaluations returned
reflect_primary_all_or_nothing(s, res) ==
    LET s3 == IF Len(res) = 3
              THEN reflect_if_present(reflect_if_present(reflect_if_present(s, res, "business"),
                                                         res, "quality"), res, "constraints")
              ELSE s
    IN [s3 EXCEPT !.iteration_count = s.iteration_count + 1,
                  !.current_step = "parallel_evaluation_complete"]

RECURSIVE reflect_in_arrival_order(_, _)
reflect_in_arrival_order(s, res) ==
    IF res = <<>> THEN s
    ELSE reflect_in_arrival_order(
             IF GetSuccess(Head(res).result)
             THEN update_evaluation_result(
                      log_agent_execution(s, AgentName(Head(res).agent_type), Head(res).result),
                      AgentName(Head(res).agent_type), Head(res).result)
             ELSE log_agent_execution(s, AgentName(Head(res).agent_type), Head(res).result),
             Tail(res))

\* mutant: the results are reflected in the order in which the calls completed
reflect_primary_as_completed(s, res) ==
    [reflect_in_arrival_order(s, res) EXCEPT !.iteration_count = s.iteration_count + 1,
                                             !.current_step = "parallel_evaluation_complete"]

\* _execute_parallel_evaluation, lines 186-208: business, quality, constraints in this order
reflect_primary(s, res) ==
    LET s1 == reflect_if_present(s, res, "business")
        s2 == reflect_if_present(s1, res, "quality")
        s3 == reflect_if_present(s2, res, "constraints")
    IN [s3 EXCEPT !.iteration_count = s.iteration_count + 1,
                  !.current_step = "parallel_evaluation_complete"]

RECURSIVE reflect_items(_, _)
reflect_items(s, res) ==
    IF res = <<>> THEN s
    ELSE reflect_items(reflect_result(s, Head(res).agent_type, Head(res).result), Tail(res))

\* _execute_fallback_parallel_evaluation, lines 303-328: in the order of results.items()
reflect_fallback(s, res) ==
    [reflect_items(s, res) EXCEPT !.iteration_count = s.iteration_count + 1,
                                  !.current_step = "parallel_evaluation_complete"]

\* safe_run_*_evaluation: an exception of the evaluator becomes an error result
safe_run(outcome) ==
    IF outcome.kind = "raised"
    THEN [success |-> FALSE, error |-> outcome.msg]
    ELSE outcome.value

\* mutant: the completion gate is not consulted
execute_estimation_generation_ungated(s, outcome) ==
    IF outcome.kind = "raised"
    THEN add_error(s, "Estimation generation error: " \o outcome.msg)
    ELSE LET logged == log_agent_execution(s, "EstimationAgent", outcome.value)
             stored == IF GetSuccess(outcome.value)
                       THEN update_evaluation_result(logged, "EstimationAgent", outcome.value)
                       ELSE logged
         IN [stored EXCEPT !.current_step = "estimation_complete"]

\* _execute_estimation_generation with the outcome of generate_estimate (used only
\* when the completion gate passes)
execute_estimation_generation(s, outcome) ==
    IF ~is_evaluation_complete(s)
    THEN add_error(s, "Parallel evaluation not completed")
    ELSE IF outcome.kind = "raised"
         THEN add_error(s, "Estimation generation error: " \o outcome.msg)
         ELSE LET logged == log_agent_execution(s, "EstimationAgent", outcome.value)
                  stored == IF GetSuccess(outcome.value)
                            THEN update_evaluation_result(logged, "EstimationAgent", outcome.value)
                            ELSE logged
              IN [stored EXCEPT !.current_step = "estimation_complete"]

Text_5seconds == <<"5", "s", "e", "c", "o", "n", "d", "s">>

\* len(text.split(","))
RECURSIVE CountParts(_)
CountParts(text) ==
    IF text = <<>> THEN 1
    ELSE (IF Head(text) = "," THEN 1 ELSE 0) + CountParts(Tail(text))

\* `word in str(tech_assumptions).lower()`: the field names hold neither "response" nor
\* "performance", so the word is found when the text of a string field holds it
Mentions(tech_assumptions, word) ==
    \E k \in DOMAIN tech_assumptions \cap {"engineer_level", "currency", "development_stack"} :
        Contains(lower(tech_assumptions[k]), word)

\* mutant: a mismatch is raised instead of printed
verify_modification_applied_raising(s, feedback) ==
    IF feedback = <<>> \/ IsNone(s.estimation_result) \/ ~GetSuccess(s.estimation_result)
    THEN Returned({})
    ELSE LET tech_assumptions ==
                 Get(Get(s.estimation_result, "estimation_result", EmptyDict),
                     "technical_assumptions", EmptyDict)
         IN IF (Contains(lower(feedback), Keyword_library)
                  \/ Contains(lower(feedback), Keyword_platform))
               /\ CountParts(Get(tech_assumptions, "development_stack", <<>>)) <= 2
            THEN Raised("Modification not applied")
            ELSE Returned({})

\* _verify_modification_applied, lines 498-519: the warnings it prints, or the exception
\* of None.get when there is feedback but no estimate
verify_modification_applied(s, feedback) ==
    IF feedback = <<>> THEN Returned({})
    ELSE IF IsNone(s.estimation_result) THEN Raised(NoneTypeError)
    ELSE IF ~GetSuccess(s.estimation_result) THEN Returned({})
    ELSE LET tech_assumptions ==
                 Get(Get(s.estimation_result, "estimation_result", EmptyDict),
                     "technical_assumptions", EmptyDict)
         IN Returned(
              (IF /\ Contains(lower(feedback), Keyword_response)
                  /\ Contains(feedback, Text_5seconds)
                  /\ ~Mentions(tech_assumptions, Keyword_response)
                  /\ ~Mentions(tech_assumptions, Keyword_performance)
               THEN {"Response time requirements may not be reflected"} ELSE {})
              \cup
              (IF /\ (Contains(lower(feedback), Keyword_library)
                        \/ Contains(lower(feedback), Keyword_platform))
                  /\ CountParts(Get(tech_assumptions, "development_stack", <<>>)) <= 2
               THEN {"Library/platform requirements may not be sufficiently specified"}
               ELSE {}))

\* mutant: a failure returned by refine_estimate ends the cycle like an exception
execute_refinement_leaving_on_failure(s, outcome) ==
    LET saved == save_iteration_to_history(s, s.user_feedback)
    IN IF saved.kind = "raised"
       THEN add_error(s, "Refinement execution error: " \o saved.msg)
       ELSE IF outcome.kind = "raised"
            THEN add_error(saved.value, "Refinement execution error: " \o outcome.msg)
            ELSE LET logged == log_agent_execution(saved.value, "EstimationAgent_Refinement",
                                                   outcome.value)
                     stored == update_evaluation_result(logged, "EstimationAgent",
                                                        outcome.value)
                     counted == [stored EXCEPT !.iteration_count = stored.iteration_count + 1,
                                               !.current_step = "refinement_complete"]
                     verified == verify_modification_applied(counted, s.user_feedback)
                 IN IF ~GetSuccess(outcome.value) THEN logged
                    ELSE IF verified.kind = "raised"
                    THEN add_error(counted, "Refinement execution error: " \o verified.msg)
                    ELSE counted

\* _execute_refinement with the outcome of refine_estimate (used only when the
\* snapshot did not raise); an exception of the verification is caught like any other
execute_refinement(s, outcome) ==
    LET saved == save_iteration_to_history(s, s.user_feedback)
    IN IF saved.kind = "raised"
       THEN add_error(s, "Refinement execution error: " \o saved.msg)
       ELSE IF outcome.kind = "raised"
            THEN add_error(saved.value, "Refinement execution error: " \o outcome.msg)
            ELSE LET logged == log_agent_execution(saved.value, "EstimationAgent_Refinement",
                                                   outcome.value)
                     stored == IF GetSuccess(outcome.value)
                               THEN update_evaluation_result(logged, "EstimationAgent",
                                                             outcome.value)
                               ELSE logged
                     counted == [stored EXCEPT !.iteration_count = stored.iteration_count + 1,
                                               !.current_step = "refinement_complete"]
                     verified == verify_modification_applied(counted, s.user_feedback)
                 IN IF verified.kind = "raised"
                    THEN add_error(counted, "Refinement execution error: " \o verified.msg)
                    ELSE counted

\* mutant: the baseline is the snapshot just taken
refine_arguments_one_back(s) ==
    LET saved == save_iteration_to_history(s, s.user_feedback).value
        history == saved.iteration_history
    IN [current_estimate |-> saved.estimation_result,
        feedback |-> saved.user_feedback,
        evaluation_feedback |-> [business_evaluation |-> saved.business_evaluation,
                                 quality_evaluation |-> saved.quality_evaluation,
                                 constraints_evaluation |-> saved.constraints_evaluation],
        previous_estimate |-> IF Len(history) >= 1
                              THEN history[Len(history)].estimation_result
                              ELSE None]

\* the arguments of refine_estimate, lines 454-479, taken from the state with its new
\* snapshot (used only when the snapshot did not raise)
refine_arguments(s) ==
    LET saved == save_iteration_to_history(s, s.user_feedback).value
        history == saved.iteration_history
    IN [current_estimate |-> saved.estimation_result,
        feedback |-> saved.user_feedback,
        evaluation_feedback |-> [business_evaluation |-> saved.business_evaluation,
                                 quality_evaluation |-> saved.quality_evaluation,
                                 constraints_evaluation |-> saved.constraints_evaluation],
        previous_estimate |-> IF Len(history) >= 2
                              THEN history[Len(history) - 1].estimation_result
                              ELSE None]

\* whether _execute_refinement reaches the call of refine_estimate
refinement_calls_refine(s) == save_iteration_to_history(s, s.user_feedback).kind = "returned"

\* mutant: the bound is tested with <=
loop_continues_off_by_one(i) == i <= max_iterations

\* the `while iteration < max_iterations` test
loop_continues(i) == i < max_iterations

\* mutant: the handler returns the state without recording the exception
workflow_error_unrecorded(s, msg) == s

\* execute_workflow's `except Exception` handler, lines 64-71
workflow_error(s, msg) == add_error(s, "workflow_error: " \o msg)

\* mutant: a successful estimate alone lets the result file be written
output_allowed_on_estimate(s) ==
    /\ ~Falsy(s.estimation_result)
    /\ GetSuccess(s.estimation_result)

\* mutant: the approval alone lets the result file be written
output_allowed_on_approval(s) == s.user_approved

\* _output_results, lines 156-163: what lets the result file be written
output_allowed(s) ==
    /\ s.user_approved
    /\ ~Falsy(s.estimation_result)
    /\ GetSuccess(s.estimation_result)

-----------------------------------------------------------------------------
(* Reporting: the totals shown by _display_current_results, the history summary of *)
(* _display_iteration_history and the Total row of _merge_estimation_data           *)

RECURSIVE SumField(_, _)
\* sum(item.get(field, 0) for item in items)
SumField(items, field) ==
    IF items = <<>> THEN 0
    ELSE Get(Head(items), field, 0) + SumField(Tail(items), field)

RECURSIVE SumWeighted(_)
\* sum(item.get('confidence_score', 0) * item.get('final_effort_days', 0) for item in items)
SumWeighted(items) ==
    IF items = <<>> THEN 0
    ELSE Get(Head(items), "confidence_score", 0) * Get(Head(items), "final_effort_days", 0)
           + SumWeighted(Tail(items))

\* round(num / den, 2) for a quotient counted in hundredths: to the nearest, ties to even
round2(num, den) ==
    LET q == num \div den
        r == num % den
    IN IF 2 * r < den THEN q
       ELSE IF 2 * r > den THEN q + 1
       ELSE IF q % 2 = 0 THEN q ELSE q + 1

\* mutant: the plain mean of the confidence scores
avg_confidence_unweighted(items) ==
    IF Len(items) > 0
    THEN [num |-> SumField(items, "confidence_score"), den |-> Len(items)]
    ELSE [num |-> 0, den |-> 1]

\* total_confidence_weighted / total_effort if total_effort > 0 else 0, as a fraction
avg_confidence(items) ==
    IF SumField(items, "final_effort_days") > 0
    THEN [num |-> SumWeighted(items), den |-> SumField(items, "final_effort_days")]
    ELSE [num |-> 0, den |-> 1]

\* CurrencyFormatter.format_amount: JPY is cut to whole units by int(), every other
\* currency is printed with two decimals (the symbol is fixed by the currency)
format_amount(amount, currency) ==
    IF currency = "JPY"
    THEN [currency |-> currency, units |-> amount \div 100]
    ELSE [currency |-> currency, units |-> amount \div 100, decimals |-> amount % 100]

\* mutant: the totals are read from the financial_summary the Evaluator supplied
display_aggregates_from_summary(est_result) ==
    LET items == Get(est_result, "deliverable_estimates", <<>>)
        summary == Get(est_result, "financial_summary", EmptyDict)
    IN [total_effort |-> Get(summary, "total_effort_days", 0),
        total_cost |-> Get(summary, "total", 0),
        confidence |-> round2(avg_confidence(items).num, avg_confidence(items).den)]

\* lines 571-581 of _display_current_results, and 187-200 of _merge_estimation_data:
\* the two sums and the rounded weighted confidence
display_aggregates(est_result) ==
    LET items == Get(est_result, "deliverable_estimates", <<>>)
    IN [total_effort |-> SumField(items, "final_effort_days"),
        total_cost |-> SumField(items, "cost"),
        confidence |-> round2(avg_confidence(items).num, avg_confidence(items).den)]

\* entry.get("estimation_result", {}).get("estimation_result", {}).get("financial_summary", {})
snapshot_summary(entry) ==
    Get(Get(Get(entry, "estimation_result", EmptyDict), "estimation_result", EmptyDict),
        "financial_summary", EmptyDict)

\* format(text, "+") raises for a str: f"{format_amount(...):+}" at line 880
SignNotAllowed == "Sign not allowed in string format specifier"

\* the "Total change summary" of _display_iteration_history, lines 867-884: what it
\* prints before the Cost Change line raises, and the exception it ends with
history_summary(history) ==
    IF Len(history) < 2 THEN [printed |-> {}]
    ELSE LET first_est == snapshot_summary(history[1])
             last_est == snapshot_summary(Last(history))
         IN IF Falsy(first_est) \/ Falsy(last_est) THEN [printed |-> {}]
            ELSE LET first_total == Get(first_est, "total_effort_days", 0)
                     last_total == Get(last_est, "total_effort_days", 0)
                 IN [printed |-> {"effort_change"},
                     first_total |-> first_total,
                     last_total |-> last_total,
                     effort_delta |-> last_total - first_total,
                     raised |-> SignNotAllowed]

\* _display_current_results, lines 564-598: the estimate with its totals and the
\* history summary, or the notice that there is no estimate
display_current_results(s, currency) ==
    IF ~Falsy(s.estimation_result) /\ GetSuccess(s.estimation_result)
    THEN LET est_result == Get(s.estimation_result, "estimation_result", EmptyDict)
         IN IF ~Falsy(est_result)
            THEN [kind |-> "estimate",
                  total_effort |-> display_aggregates(est_result).total_effort,
                  total_amount |-> format_amount(display_aggregates(est_result).total_cost,
                                                 currency),
                  confidence |-> display_aggregates(est_result).confidence,
                  history |-> history_summary(s.iteration_history)]
            ELSE [kind |-> "estimation_data_not_available"]
    ELSE IF ~Falsy(s.estimation_result)
         THEN [kind |-> "estimation_failed",
               error |-> Get(s.estimation_result, "error", "Unknown estimation error")]
         ELSE [kind |-> "estimation_not_completed"]

\* name.split()[0] at line 152 raises IndexError for a name without a word
merge_raises(items) == \E i \in 1..Len(items) : Get(items[i], "name", "") = ""

\* _merge_estimation_data: the 【Total】 row appended to the main sheet, or only the
\* original sheet when the merge raised
merge_estimation_data(estimation_result, currency) ==
    IF GetSuccess(estimation_result) /\ "estimation_result" \in DOMAIN estimation_result
    THEN LET est_data == estimation_result.estimation_result
             items == Get(est_data, "deliverable_estimates", <<>>)
         IN IF merge_raises(items)
            THEN [kind |-> "sheet_without_estimates"]
            ELSE [kind |-> "sheet",
                  currency_code |-> currency,
                  total_row |-> [effort |-> display_aggregates(est_data).total_effort,
                                 cost |-> display_aggregates(est_data).total_cost,
                                 confidence |-> display_aggregates(est_data).confidence]]
    ELSE [kind |-> "sheet_without_estimates"]

-----------------------------------------------------------------------------
(* utils/excel_processor.py: reading the rows of the input sheet.  A character *)
(* outside ASCII is written as its code point, "U+753B".                        *)

Keywords_documentation ==
    { <<"r", "e", "q", "u", "i", "r", "e", "m", "e", "n", "t", "s">>, <<"s", "p", "e", "c",
      "i", "f", "i", "c", "a", "t", "i", "o", "n">>, <<"d", "e", "f", "i", "n", "i", "t",
      "i", "o", "n">>, <<"U+8981", "U+4EF6">>, <<"U+4ED5", "U+69D8">>, <<"U+5B9A",
      "U+7FA9">> }

Keywords_frontend ==
    { <<"f", "r", "o", "n", "t", "e", "n", "d">>, <<"s", "c", "r", "e", "e", "n">>, <<"u",
      "i">>, <<"u", "x">>, <<"U+30D5", "U+30ED", "U+30F3", "U+30C8", "U+30A8", "U+30F3",
      "U+30C9">>, <<"U+753B", "U+9762">> }

Keywords_backend ==
    { <<"b", "a", "c", "k", "e", "n", "d">>, <<"a", "p", "i">>, <<"s", "e", "r", "v", "e",
      "r">>, <<"U+30D0", "U+30C3", "U+30AF", "U+30A8", "U+30F3", "U+30C9">>, <<"U+30B5",
      "U+30FC", "U+30D0", "U+30FC">> }

Keywords_database ==
    { <<"d", "a", "t", "a", "b", "a", "s", "e">>, <<"d", "b">>, <<"t", "a", "b", "l", "e">>,
      <<"U+30C7", "U+30FC", "U+30BF", "U+30D9", "U+30FC", "U+30B9">>, <<"U+30C6", "U+30FC",
      "U+30D6", "U+30EB">> }

Keywords_testing ==
    { <<"t", "e", "s", "t">>, <<"t", "e", "s", "t", "i", "n", "g">>, <<"U+30C6", "U+30B9",
      "U+30C8">>, <<"U+8A66", "U+9A13">> }

Keywords_security ==
    { <<"s", "e", "c", "u", "r", "i", "t", "y">>, <<"e", "n", "c", "r", "y", "p", "t", "i",
      "o", "n">>, <<"a", "u", "t", "h", "e", "n", "t", "i", "c", "a", "t", "i", "o", "n">>,
      <<"U+30BB", "U+30AD", "U+30E5", "U+30EA", "U+30C6", "U+30A3">>, <<"U+6697", "U+53F7",
      "U+5316">>, <<"U+8A8D", "U+8A3C">> }

Keywords_deployment ==
    { <<"d", "e", "p", "l", "o", "y">>, <<"d", "e", "p", "l", "o", "y", "m", "e", "n",
      "t">>, <<"o", "p", "e", "r", "a", "t", "i", "o", "n">>, <<"i", "n", "f", "r", "a",
      "s", "t", "r", "u", "c", "t", "u", "r", "e">>, <<"U+30C7", "U+30D7", "U+30ED",
      "U+30A4">>, <<"U+904B", "U+7528">>, <<"U+30A4", "U+30F3", "U+30D5", "U+30E9">> }

\* any(keyword in text for keyword in keywords)
AnyIn(keywords, text) == \E keyword \in keywords : Contains(text, keyword)

\* f"{name} {description}".lower()
row_text(name, description) == lower(name \o <<" ">> \o description)

\* mutant: the security rule is tried before the frontend rule
infer_category_security_first(name, description) ==
    LET text == row_text(name, description)
    IN IF AnyIn(Keywords_documentation, text) THEN "documentation"
       ELSE IF AnyIn(Keywords_security, text) THEN "security"
       ELSE IF AnyIn(Keywords_frontend, text) THEN "frontend_development"
       ELSE IF AnyIn(Keywords_backend, text) THEN "backend_development"
       ELSE IF AnyIn(Keywords_database, text) THEN "database"
       ELSE IF AnyIn(Keywords_testing, text) THEN "testing"
       ELSE IF AnyIn(Keywords_deployment, text) THEN "deployment"
       ELSE "other"

\* _infer_category, lines 105-125
infer_category(name, description) ==
    LET text == row_text(name, description)
    IN IF AnyIn(Keywords_documentation, text) THEN "documentation"
       ELSE IF AnyIn(Keywords_frontend, text) THEN "frontend_development"
       ELSE IF AnyIn(Keywords_backend, text) THEN "backend_development"
       ELSE IF AnyIn(Keywords_database, text) THEN "database"
       ELSE IF AnyIn(Keywords_testing, text) THEN "testing"
       ELSE IF AnyIn(Keywords_security, text) THEN "security"
       ELSE IF AnyIn(Keywords_deployment, text) THEN "deployment"
       ELSE "other"

\* read_deliverables_from_excel, lines 42-52: one row of the sheet; a row without a name
\* or without a description is skipped
read_row(name, description) ==
    IF strip(name) # <<>> /\ strip(description) # <<>>
    THEN [kind |-> "deliverable",
          name |-> strip(name),
          description |-> strip(description),
          category |-> infer_category(strip(name), strip(description)),
          complexity_level |-> "medium"]
    ELSE [kind |-> "skipped"]

-----------------------------------------------------------------------------
(* The workflow run: main.run -> execute_workflow -> the stages *)

NoCalls ==
    [business |-> 0, quality |-> 0, constraints |-> 0,
     generate_estimate |-> 0, refine_estimate |-> 0,
     last_refine |-> None]

NoFutures == [a \in AgentTypeSet |-> [kind |-> "none"]]

NoCall == [agent |-> "none", attempt |-> 0, waited |-> 0, result |-> None, origin |-> "none"]

\* os.getenv("CURRENCY", "USD")
DefaultEnv == [currency |-> "USD"]

NoReport == [kind |-> "none"]

NoRow == [kind |-> "none"]

Init ==
    /\ state = create_initial_state
    /\ pc = "start"
    /\ futures = NoFutures
    /\ results = <<>>
    /\ iteration = 0
    /\ decisions = <<>>
    /\ calls = NoCalls
    /\ final_state = None
    /\ files = {}
    /\ gate = <<>>
    /\ faults = {}
    /\ row = NoRow
    /\ call = NoCall
    /\ env = DefaultEnv
    /\ report = NoReport

\* executor.submit of the three evaluations, lines 155-161
SubmitPrimary ==
    /\ pc = "start"
    /\ pc' = "parallel"
    /\ futures' = [a \in AgentTypeSet |-> Pending]
    /\ results' = <<>>
    /\ calls' = [calls EXCEPT !.business = @ + 1, !.quality = @ + 1, !.constraints = @ + 1]
    /\ UNCHANGED <<state, iteration, decisions, final_state, files, gate, faults, call, env, report, row>>

\* mutant: each result is folded into the state as soon as it arrives
CollectPrimary_folding(a, outcome) ==
    /\ pc = "parallel"
    /\ futures[a].kind = "pending"
    /\ futures' = [futures EXCEPT ![a] = outcome]
    /\ results' = IF outcome.kind = "returned"
                  THEN PutResult(results, a, outcome.value)
                  ELSE results
    /\ state' = IF outcome.kind = "returned"
                THEN reflect_result(state, a, outcome.value)
                ELSE state
    /\ faults' = IF outcome.kind = "returned" /\ GetSuccess(outcome.value)
                 THEN faults ELSE faults \cup {"evaluator"}
    /\ UNCHANGED <<pc, iteration, decisions, calls, final_state, files, gate, call, env, report, row>>

\* one pass of the as_completed loop, lines 165-181: a raised future is only printed
CollectPrimary(a, outcome) ==
    /\ pc = "parallel"
    /\ futures[a].kind = "pending"
    /\ futures' = [futures EXCEPT ![a] = outcome]
    /\ results' = IF outcome.kind = "returned"
                  THEN PutResult(results, a, outcome.value)
                  ELSE results
    /\ faults' = IF outcome.kind = "returned" /\ GetSuccess(outcome.value)
                 THEN faults ELSE faults \cup {"evaluator"}
    /\ UNCHANGED <<state, pc, iteration, decisions, calls, final_state, files, gate, call, env, report, row>>

\* an evaluator call hangs: its future never completes, so as_completed (line 165 and
\* line 286, both without a timeout) never yields it; future.result(timeout=120) at
\* line 290 is only reached for futures that as_completed has yielded, which are done
Hang(a) ==
    /\ pc \in {"parallel", "fallback"}
    /\ futures[a].kind = "pending"
    /\ futures' = [futures EXCEPT ![a] = Hung]
    /\ UNCHANGED <<state, pc, results, iteration, decisions, calls, final_state, files, gate, faults, call, env, report, row>>

\* the as_completed loop has ended and the executor's `with` block has been left
AllCollected == \A a \in AgentTypeSet : futures[a].kind \in {"returned", "raised"}

\* lines 186-208
ReflectPrimary ==
    /\ pc = "parallel"
    /\ AllCollected
    /\ state' = reflect_primary(state, results)
    /\ pc' = "estimation"
    /\ futures' = NoFutures
    /\ results' = <<>>
    /\ UNCHANGED <<iteration, decisions, calls, final_state, files, gate, faults, call, env, report, row>>

\* an exception escaping the primary path, lines 210-214, once the executor's `with`
\* block has waited for the three futures: the fallback starts from the state the stage
\* was entered with (updated_state is a discarded copy)
PrimarySystemError ==
    /\ pc = "parallel"
    /\ AllCollected
    /\ pc' = "fallback_start"
    /\ futures' = NoFutures
    /\ results' = <<>>
    /\ faults' = {"primary_path"}   \* what the abandoned path collected is discarded with it
    /\ UNCHANGED <<state, iteration, decisions, calls, final_state, files, gate, call, env, report, row>>

\* lines 272-280
SubmitFallback ==
    /\ pc = "fallback_start"
    /\ pc' = "fallback"
    /\ futures' = [a \in AgentTypeSet |-> Pending]
    /\ results' = <<>>
    /\ calls' = [calls EXCEPT !.business = @ + 1, !.quality = @ + 1, !.constraints = @ + 1]
    /\ UNCHANGED <<state, iteration, decisions, final_state, files, gate, faults, call, env, report, row>>

\* one pass of the fallback's as_completed loop, lines 286-298
CollectFallback(a, outcome) ==
    /\ pc = "fallback"
    /\ futures[a].kind = "pending"
    /\ futures' = [futures EXCEPT ![a] = Returned(safe_run(outcome))]
    /\ results' = PutResult(results, a, safe_run(outcome))
    /\ faults' = IF outcome.kind = "returned" /\ GetSuccess(outcome.value)
                 THEN faults ELSE faults \cup {"evaluator"}
    /\ UNCHANGED <<state, pc, iteration, decisions, calls, final_state, files, gate, call, env, report, row>>

\* lines 303-328
ReflectFallback ==
    /\ pc = "fallback"
    /\ AllCollected
    /\ state' = reflect_fallback(state, results)
    /\ pc' = "estimation"
    /\ futures' = NoFutures
    /\ results' = <<>>
    /\ UNCHANGED <<iteration, decisions, calls, final_state, files, gate, faults, call, env, report, row>>

\* an exception escaping the fallback path, lines 330-333, once the executor's `with`
\* block has waited for the three futures
FallbackSystemError ==
    /\ pc = "fallback"
    /\ AllCollected
    /\ state' = add_error(state, "Parallel evaluation system error: " \o "boom")
    /\ pc' = "estimation"
    /\ futures' = NoFutures
    /\ results' = <<>>
    /\ faults' = faults \cup {"fallback_path"}
    /\ UNCHANGED <<iteration, decisions, calls, final_state, files, gate, call, env, report, row>>

\* _execute_estimation_generation, lines 335-406, then the first loop test, line 415,
\* and the display that opens a loop pass, line 417
EstimationGeneration(outcome) ==
    /\ pc = "estimation"
    /\ gate' = <<is_evaluation_complete(state)>>
    /\ state' = execute_estimation_generation(state, outcome)
    /\ calls' = IF is_evaluation_complete(state)
                THEN [calls EXCEPT !.generate_estimate = @ + 1]
                ELSE calls
    /\ pc' = IF loop_continues(iteration) THEN "await_decision" ELSE "loop_exit"
    /\ report' = IF loop_continues(iteration)
                 THEN display_current_results(state', env.currency) ELSE report
    /\ faults' = IF is_evaluation_complete(state)
                    /\ ~(outcome.kind = "returned" /\ GetSuccess(outcome.value))
                 THEN faults \cup {"estimation"} ELSE faults
    /\ UNCHANGED <<futures, results, iteration, decisions, final_state, files, call, env, row>>

\* mutant: a refinement cycle runs the three evaluators again
Refine_reevaluating(s, outcome) ==
    /\ state' = execute_refinement(s, outcome)
    /\ calls' = IF refinement_calls_refine(s)
                THEN [calls EXCEPT !.refine_estimate = @ + 1,
                                   !.last_refine = refine_arguments(s)
                                                      @@ [outcome |-> outcome],
                                   !.business = @ + 1, !.quality = @ + 1,
                                   !.constraints = @ + 1]
                ELSE calls
    /\ faults' = IF refinement_calls_refine(s) /\ outcome.kind = "returned"
                    /\ GetSuccess(outcome.value)
                 THEN faults ELSE faults \cup {"refinement"}
    /\ iteration' = iteration + 1
    /\ pc' = IF loop_continues(iteration + 1) THEN "await_decision" ELSE "loop_exit"
    /\ report' = IF loop_continues(iteration + 1)
                 THEN display_current_results(state', env.currency) ELSE report

\* the refinement of one loop pass, lines 437-440, the next loop test and the display
\* that opens the next pass
Refine(s, outcome) ==
    /\ state' = execute_refinement(s, outcome)
    /\ calls' = IF refinement_calls_refine(s)
                THEN [calls EXCEPT !.refine_estimate = @ + 1,
                                   !.last_refine = refine_arguments(s)
                                                      @@ [outcome |-> outcome]]
                ELSE calls
    /\ faults' = IF refinement_calls_refine(s) /\ outcome.kind = "returned"
                    /\ GetSuccess(outcome.value)
                 THEN faults ELSE faults \cup {"refinement"}
    /\ iteration' = iteration + 1
    /\ pc' = IF loop_continues(iteration + 1) THEN "await_decision" ELSE "loop_exit"
    /\ report' = IF loop_continues(iteration + 1)
                 THEN display_current_results(state', env.currency) ELSE report

\* mutant: the approval does not record its step
Approve_keeping_step(raw) ==
    /\ pc = "await_decision"
    /\ strip(lower(raw)) \in ApproveTokens
    /\ state' = [state EXCEPT !.user_approved = TRUE]
    /\ decisions' = Append(decisions, "approve")
    /\ pc' = "loop_exit"
    /\ UNCHANGED <<futures, results, iteration, calls, final_state, files, gate, faults, call, env, report, row>>

\* mutant: the approval does not leave the loop
Approve_without_break(raw) ==
    /\ pc = "await_decision"
    /\ strip(lower(raw)) \in ApproveTokens
    /\ state' = [state EXCEPT !.user_approved = TRUE, !.current_step = "approved"]
    /\ decisions' = Append(decisions, "approve")
    /\ pc' = "await_decision"
    /\ UNCHANGED <<futures, results, iteration, calls, final_state, files, gate, faults, call, env, report, row>>

\* the approval prompt answered with an affirmative token, lines 420-426
Approve(raw) ==
    /\ pc = "await_decision"
    /\ strip(lower(raw)) \in ApproveTokens
    /\ state' = [state EXCEPT !.user_approved = TRUE, !.current_step = "approved"]
    /\ decisions' = Append(decisions, "approve")
    /\ pc' = "loop_exit"
    /\ UNCHANGED <<futures, results, iteration, calls, final_state, files, gate, faults, call, env, report, row>>

\* mutant: the session log is written out at every rejection
Reject_writing_log(raw) ==
    /\ pc = "await_decision"
    /\ strip(lower(raw)) \in RejectTokens
    /\ state' = [state EXCEPT !.user_approved = FALSE]
    /\ decisions' = Append(decisions, "reject")
    /\ files' = files \cup {"session_log.json"}
    /\ pc' = "await_feedback"
    /\ UNCHANGED <<futures, results, iteration, calls, final_state, gate, faults, call, env, report, row>>

\* the approval prompt answered with a rejection token, lines 427-428
Reject(raw) ==
    /\ pc = "await_decision"
    /\ strip(lower(raw)) \in RejectTokens
    /\ state' = [state EXCEPT !.user_approved = FALSE]
    /\ decisions' = Append(decisions, "reject")
    /\ pc' = "await_feedback"
    /\ UNCHANGED <<futures, results, iteration, calls, final_state, files, gate, faults, call, env, report, row>>

\* the feedback prompt answered, lines 429-431, then the refinement
GiveFeedback(raw, outcome) ==
    /\ pc = "await_feedback"
    /\ Refine([state EXCEPT !.user_feedback = raw, !.current_step = "needs_refinement"],
              outcome)
    /\ UNCHANGED <<futures, results, decisions, final_state, files, gate, call, env, row>>

\* mutant: an empty answer ends the loop without a refinement
OtherResponse_leaving_on_empty(raw, outcome) ==
    /\ pc = "await_decision"
    /\ strip(lower(raw)) \notin ApproveTokens \cup RejectTokens
    /\ decisions' = Append(decisions, "other")
    /\ IF strip(lower(raw)) = <<>>
       THEN /\ state' = [state EXCEPT !.user_approved = FALSE,
                                      !.user_feedback = <<>>,
                                      !.current_step = "needs_refinement"]
            /\ pc' = "loop_exit"
            /\ UNCHANGED <<calls, faults, iteration, report>>
       ELSE Refine([state EXCEPT !.user_approved = FALSE,
                                 !.user_feedback = strip(lower(raw)),
                                 !.current_step = "needs_refinement"],
                   outcome)
    /\ UNCHANGED <<futures, results, final_state, files, gate, call, env, row>>

\* mutant: the response is stored as it was typed
OtherResponse_as_typed(raw, outcome) ==
    /\ pc = "await_decision"
    /\ strip(lower(raw)) \notin ApproveTokens \cup RejectTokens
    /\ decisions' = Append(decisions, "other")
    /\ Refine([state EXCEPT !.user_approved = FALSE,
                            !.user_feedback = raw,
                            !.current_step = "needs_refinement"],
              outcome)
    /\ UNCHANGED <<futures, results, final_state, files, gate, call, env, row>>

\* the approval prompt answered with anything else, lines 432-435, then the refinement
OtherResponse(raw, outcome) ==
    /\ pc = "await_decision"
    /\ strip(lower(raw)) \notin ApproveTokens \cup RejectTokens
    /\ decisions' = Append(decisions, "other")
    /\ Refine([state EXCEPT !.user_approved = FALSE,
                            !.user_feedback = strip(lower(raw)),
                            !.current_step = "needs_refinement"],
              outcome)
    /\ UNCHANGED <<futures, results, final_state, files, gate, call, env, row>>

\* input() raises an Exception (end of input): execute_workflow's handler, lines 64-71
InputError ==
    /\ pc \in {"await_decision", "await_feedback"}
    /\ state' = workflow_error(state, "EOF when reading a line")
    /\ final_state' = state'
    /\ pc' = "returned"
    /\ faults' = faults \cup {"prompt"}
    /\ UNCHANGED <<futures, results, iteration, decisions, calls, files, gate, call, env, report, row>>

\* KeyboardInterrupt while input() waits: not an Exception, so it passes the handler of
\* execute_workflow and reaches run(), lines 80-81, where final_state was never assigned
UserInterrupt ==
    /\ pc \in {"await_decision", "await_feedback"}
    /\ pc' = "interrupted"
    /\ UNCHANGED <<state, futures, results, iteration, decisions, calls, final_state, files, gate, faults, call, env, report, row>>

\* lines 442-445 and 61-62: the loop is left and the state returned to run()
ReturnState ==
    /\ pc = "loop_exit"
    /\ final_state' = state
    /\ pc' = "returned"
    /\ UNCHANGED <<state, futures, results, iteration, decisions, calls, files, gate, faults, call, env, report, row>>

\* main.py _output_results and _output_session_logs, lines 152-207
OutputResults(excel_ok, log_ok) ==
    /\ pc = "returned"
    /\ files' = IF output_allowed(final_state)
                THEN (IF excel_ok THEN {"estimate.xlsx"} ELSE {})
                       \cup (IF log_ok THEN {"session_log.json"} ELSE {})
                ELSE {}
    /\ pc' = "done"
    /\ UNCHANGED <<state, futures, results, iteration, decisions, calls, final_state, gate, faults, call, env, report, row>>

Next ==
    \/ SubmitPrimary
    \/ \E a \in AgentTypeSet : \E o \in EvaluatorOutcomes(a) : CollectPrimary(a, o)
    \/ \E a \in AgentTypeSet : Hang(a)
    \/ ReflectPrimary
    \/ PrimarySystemError
    \/ SubmitFallback
    \/ \E a \in AgentTypeSet : \E o \in EvaluatorOutcomes(a) : CollectFallback(a, o)
    \/ ReflectFallback
    \/ FallbackSystemError
    \/ \E o \in EstimationOutcomes : EstimationGeneration(o)
    \/ \E raw \in RawResponses : Approve(raw)
    \/ \E raw \in RawResponses : Reject(raw)
    \/ \E raw \in RawFeedbacks : \E o \in EstimationOutcomes : GiveFeedback(raw, o)
    \/ \E raw \in RawResponses : \E o \in EstimationOutcomes : OtherResponse(raw, o)
    \/ InputError
    \/ UserInterrupt
    \/ ReturnState
    \/ \E excel_ok \in BOOLEAN : \E log_ok \in BOOLEAN : OutputResults(excel_ok, log_ok)

Spec == Init /\ [][Next]_vars

-----------------------------------------------------------------------------
(* The completion gate on arbitrary slot contents: is_evaluation_complete is a   *)
(* function of the three evaluation slots, each of which may be a missing key,   *)
(* None, an empty dict, a dict without "success", a failure or a success.        *)

SlotContents(agent_type) ==
    { None, EmptyDict, [evaluation |-> agent_type],
      ErrorResponse("evaluation failed"), SuccessResult(agent_type) }

Missing == [missing_key |-> TRUE]

SlotChoices(agent_type) == SlotContents(agent_type) \cup {Missing}

\* the initial state with the three slots set to b, q, c (a Missing slot has no key)
StateWithSlots(b, q, c) ==
    LET absent == (IF b = Missing THEN {"business_evaluation"} ELSE {})
                    \cup (IF q = Missing THEN {"quality_evaluation"} ELSE {})
                    \cup (IF c = Missing THEN {"constraints_evaluation"} ELSE {})
    IN [k \in (DOMAIN create_initial_state) \ absent |->
          CASE k = "business_evaluation" -> b
            [] k = "quality_evaluation" -> q
            [] k = "constraints_evaluation" -> c
            [] OTHER -> create_initial_state[k]]

InitGate ==
    /\ \E b \in SlotChoices("business") : \E q \in SlotChoices("quality") :
         \E c \in SlotChoices("constraints") : state = StateWithSlots(b, q, c)
    /\ pc = "gate"
    /\ futures = NoFutures
    /\ results = <<>>
    /\ iteration = 0
    /\ decisions = <<>>
    /\ calls = NoCalls
    /\ final_state = None
    /\ files = {}
    /\ gate = <<>>
    /\ faults = {}
    /\ row = NoRow
    /\ call = NoCall
    /\ env = DefaultEnv
    /\ report = NoReport

\* one call of is_evaluation_complete(state)
CheckGate ==
    /\ pc = "gate"
    /\ gate' = <<is_evaluation_complete(state)>>
    /\ pc' = "gate_checked"
    /\ UNCHANGED <<state, futures, results, iteration, decisions, calls, final_state, files, faults, call, env, report, row>>

NextGate == CheckGate

SpecGate == InitGate /\ [][NextGate]_vars

-----------------------------------------------------------------------------
(* One evaluator call, attempt by attempt, and the fold of what it returned into a *)
(* state whose slots may already hold earlier results.                             *)

PriorSlots(agent_type) == { None, SuccessResult(agent_type) }

PriorEstimates == { None, EstimateResult(1) }

InitCall ==
    /\ \E b \in PriorSlots("business") : \E q \in PriorSlots("quality") :
         \E c \in PriorSlots("constraints") : \E e \in PriorEstimates :
           state = [StateWithSlots(b, q, c) EXCEPT !.estimation_result = e]
    /\ \E agent \in AgentKinds : call = [NoCall EXCEPT !.agent = agent]
    \* generate_estimate is only called behind the completion gate
    /\ call.agent = "estimation" => is_evaluation_complete(state)
    /\ pc = "call"
    /\ futures = NoFutures
    /\ results = <<>>
    /\ iteration = 0
    /\ decisions = <<>>
    /\ calls = NoCalls
    /\ final_state = None
    /\ files = {}
    /\ gate = <<>>
    /\ faults = {}
    /\ row = NoRow
    /\ env = DefaultEnv
    /\ report = NoReport

\* execute_with_pydantic, lines 44-46: without an API key the dummy response is returned
CallWithoutApiKey ==
    /\ pc = "call"
    /\ call.agent \in PydanticAgents
    /\ call.attempt = 0
    /\ call' = [call EXCEPT !.result = wrap_pydantic(call.agent, create_dummy_response(call.agent)),
                            !.origin = "no_api_key"]
    /\ pc' = "fold"
    /\ UNCHANGED <<state, futures, results, iteration, decisions, calls, final_state, files, gate, faults, env, report, row>>

\* execute_with_pydantic, lines 52-78: the parser or the chain cannot be built
CallSetupError ==
    /\ pc = "call"
    /\ call.agent \in PydanticAgents
    /\ call.attempt = 0
    /\ call' = [call EXCEPT
                  !.result = wrap_pydantic(call.agent,
                                 create_error_response(call.agent, "Prompt/chain creation error")),
                  !.origin = "setup_error"]
    /\ pc' = "fold"
    /\ UNCHANGED <<state, futures, results, iteration, decisions, calls, final_state, files, gate, faults, env, report, row>>

\* an attempt of the retry loop gets an answer from the model
AttemptAnswers(reply) ==
    /\ pc = "call"
    /\ call.attempt < max_retries
    /\ call.agent \in PydanticAgents => reply = "complete"
    /\ call' = [call EXCEPT
                  !.result = IF call.agent \in PydanticAgents
                             THEN wrap_pydantic(call.agent, pydantic_result(call.agent, call.attempt))
                             ELSE validated(call.agent, ai_result(call.agent, reply, call.attempt)),
                  !.origin = "model"]
    /\ pc' = "fold"
    /\ UNCHANGED <<state, futures, results, iteration, decisions, calls, final_state, files, gate, faults, env, report, row>>

\* base_ai_agent.py:21
retry_delay == 1

\* the seconds slept before the next attempt: time.sleep(2 ** attempt) in
\* execute_with_pydantic, time.sleep(self.retry_delay) in execute_with_ai
backoff(agent, attempt) == IF agent \in PydanticAgents THEN 2 ^ attempt ELSE retry_delay

\* mutant: the loop sleeps after its last attempt too, before it gives up
AttemptFails_waiting_after_last(failure) ==
    /\ pc = "call"
    /\ call.attempt < max_retries
    /\ IF call.attempt = max_retries - 1
       THEN /\ call' = [call EXCEPT !.attempt = @ + 1,
                                    !.waited = @ + backoff(call.agent, call.attempt),
                                    !.result = exhausted_result(call.agent, failure),
                                    !.origin = "retries_exhausted"]
            /\ pc' = "fold"
       ELSE /\ call' = [call EXCEPT !.attempt = @ + 1,
                                    !.waited = @ + backoff(call.agent, call.attempt)]
            /\ pc' = "call"
    /\ UNCHANGED <<state, futures, results, iteration, decisions, calls, final_state, files, gate, faults, env, report, row>>

\* an attempt of the retry loop fails (validation / JSON error, or any other exception):
\* after the sleep the next attempt follows, or after the last one the loop gives up
AttemptFails(failure) ==
    /\ pc = "call"
    /\ call.attempt < max_retries
    /\ IF call.attempt = max_retries - 1
       THEN /\ call' = [call EXCEPT !.attempt = @ + 1,
                                    !.result = exhausted_result(call.agent, failure),
                                    !.origin = "retries_exhausted"]
            /\ pc' = "fold"
       ELSE /\ call' = [call EXCEPT !.attempt = @ + 1,
                                    !.waited = @ + backoff(call.agent, call.attempt)]
            /\ pc' = "call"
    /\ UNCHANGED <<state, futures, results, iteration, decisions, calls, final_state, files, gate, faults, env, report, row>>

\* what the evaluator returned is folded into the state: by the Parallel Evaluation
\* Stage for the three evaluators, by the Estimation Stage for the estimate
FoldCall ==
    /\ pc = "fold"
    /\ state' = IF call.agent = "estimation"
                THEN execute_estimation_generation(state, Returned(call.result))
                ELSE reflect_result(state, call.agent, call.result)
    /\ pc' = "folded"
    /\ UNCHANGED <<futures, results, iteration, decisions, calls, final_state, files, gate, faults, call, env, report, row>>

NextCall ==
    \/ CallWithoutApiKey
    \/ CallSetupError
    \/ \E reply \in Replies : AttemptAnswers(reply)
    \/ \E failure \in {"Validation", "Execution"} : AttemptFails(failure)
    \/ FoldCall

SpecCall == InitCall /\ [][NextCall]_vars

\* every model call answers or fails in the end (request_timeout, the client's timeout),
\* and the caller then folds what was returned
SpecCallFair == SpecCall /\ WF_vars(NextCall)

-----------------------------------------------------------------------------
(* The reports on their own: an estimate with a history is displayed, then written *)
(* to the sheet, for every list of line items and every summary the Evaluator may  *)
(* have supplied with it                                                           *)

MaxItems == 2

\* a deliverable estimated at no effort
Item_Docs ==
    [name |-> "Docs", final_effort_days |-> 0, cost |-> 0, confidence_score |-> 50]

\* an item as _create_dummy_response writes them (cost_jpy, no cost), under a name
\* without a word
Item_Unnamed ==
    [name |-> "", final_effort_days |-> 50, cost_jpy |-> 25000000, confidence_score |-> 80]

ItemSet == {Item_API, Item_UI, Item_Docs, Item_Unnamed}

ItemLists(n) == UNION {[1..k -> ItemSet] : k \in 0..n}

\* the FinancialSummary the Evaluator sends along: the true sums, other figures, or none
ConsistentSummary(items) ==
    [total_effort_days |-> SumField(items, "final_effort_days"),
     total |-> SumField(items, "cost")]

Summaries(items) ==
    {ConsistentSummary(items),
     [total_effort_days |-> 200, total |-> 100000000],
     [total_effort_days |-> 250, total |-> 137500000],
     EmptyDict}

Estimates(n) ==
    {[success |-> TRUE,
      estimation_result |-> [deliverable_estimates |-> items, financial_summary |-> fs],
      _agent_metadata |-> [attempt_number |-> 1]] :
        <<items, fs>> \in UNION {{<<l, f>> : f \in Summaries(l)} : l \in ItemLists(n)}}

Currencies == {"USD", "JPY"}

\* the state with `last` as the current estimate, saved to the history after `earlier`
StateWithHistory(earlier, last) ==
    LET s0 == [create_initial_state EXCEPT !.estimation_result = last]
        s1 == save_iteration_to_history(
                  [s0 EXCEPT !.estimation_result = earlier[1]], <<>>).value
    IN IF earlier = <<>>
       THEN save_iteration_to_history(s0, <<>>).value
       ELSE save_iteration_to_history(
                [s1 EXCEPT !.estimation_result = last, !.iteration_count = 1], <<"f">>).value

InitReport ==
    /\ \E last \in Estimates(MaxItems) :
         \E earlier \in {<<>>} \cup {<<e>> : e \in Estimates(MaxItems - 1)} :
           state = StateWithHistory(earlier, last)
    /\ \E c \in Currencies : env = [currency |-> c]
    /\ report = NoReport
    /\ pc = "report"
    /\ futures = NoFutures
    /\ results = <<>>
    /\ iteration = 0
    /\ decisions = <<>>
    /\ calls = NoCalls
    /\ final_state = None
    /\ files = {}
    /\ gate = <<>>
    /\ faults = {}
    /\ row = NoRow
    /\ call = NoCall

\* _display_current_results at the top of a loop pass, line 417
DisplayCurrentResults ==
    /\ pc = "report"
    /\ report' = display_current_results(state, env.currency)
    /\ pc' = "displayed"
    /\ UNCHANGED <<state, futures, results, iteration, decisions, calls, final_state, files, gate,
                   faults, call, env, row>>

\* write_estimation_to_excel, lines 67-100: the sheet built by _merge_estimation_data
WriteEstimationToExcel ==
    /\ pc = "displayed"
    /\ report' = merge_estimation_data(state.estimation_result, env.currency)
    /\ files' = {"estimate.xlsx"}
    /\ pc' = "written"
    /\ UNCHANGED <<state, futures, results, iteration, decisions, calls, final_state, gate,
                   faults, call, env, row>>

NextReport ==
    \/ DisplayCurrentResults
    \/ WriteEstimationToExcel

SpecReport == InitReport /\ [][NextReport]_vars

-----------------------------------------------------------------------------
(* The refinement loop on its own, entered after a completed evaluation, with     *)
(* modification requests that name libraries, platforms and response times and    *)
(* refined estimates that do or do not take them up                               *)

Text_CachedStack ==
    <<"R", "e", "d", "i", "s", ",", " ", "N", "g", "i", "n", "x", ",", " ", "f", "a", "s",
      "t", " ", "r", "e", "s", "p", "o", "n", "s", "e">>

Text_Platform ==
    <<"P", "l", "a", "t", "f", "o", "r", "m", " ", "A", "W", "S">>

\* what the user may ask for
ModificationRequests ==
    { <<>>, Keyword_library, Text_Platform, Keyword_response \o <<" ">> \o Text_5seconds,
      Keyword_performance }

EstimateWithStack(stack) ==
    [EstimateResult(1) EXCEPT !.estimation_result.technical_assumptions.development_stack = stack]

\* what generate_estimate and refine_estimate may answer
StackOutcomes ==
    { Returned(EstimateWithStack(stack)) : stack \in {Text_Python, Text_CachedStack} }
      \cup { Returned(ErrorResponse("estimation failed")), Raised("boom") }

AllSucceeded ==
    PutResult(PutResult(PutResult(<<>>, "business", SuccessResult("business")),
                        "quality", SuccessResult("quality")),
              "constraints", SuccessResult("constraints"))

InitRefine ==
    /\ \E outcome \in StackOutcomes :
         state = execute_estimation_generation(
                     reflect_primary(create_initial_state, AllSucceeded), outcome)
    /\ env = DefaultEnv
    /\ report = display_current_results(state, env.currency)
    /\ pc = "await_decision"
    /\ futures = NoFutures
    /\ results = <<>>
    /\ iteration = 0
    /\ decisions = <<>>
    /\ calls = [NoCalls EXCEPT !.business = 1, !.quality = 1, !.constraints = 1,
                               !.generate_estimate = 1]
    /\ final_state = None
    /\ files = {}
    /\ gate = <<TRUE>>
    /\ faults = {}
    /\ row = NoRow
    /\ call = NoCall

NextRefine ==
    \/ \E raw \in RawResponses : Reject(raw)
    \/ \E raw \in ModificationRequests : \E outcome \in StackOutcomes : GiveFeedback(raw, outcome)
    \/ \E raw \in ModificationRequests : \E outcome \in StackOutcomes : OtherResponse(raw, outcome)

SpecRefine == InitRefine /\ [][NextRefine]_vars

-----------------------------------------------------------------------------
(* The reading of one row of the input sheet on its own *)

CellTexts ==
    { <<"L", "o", "g", "i", "n", " ", "S", "c", "r", "e", "e", "n">>, <<"U", "s", "e", "r",
      " ", "a", "u", "t", "h", "e", "n", "t", "i", "c", "a", "t", "i", "o", "n", " ", "U",
      "I">>, <<"R", "E", "S", "T", " ", "A", "P", "I">>, <<"T", "e", "s", "t", " ", "p",
      "l", "a", "n">>, <<"D", "a", "s", "h", "b", "o", "a", "r", "d">>, <<"b", "a", "c",
      "k", "u", "p", " ", "D", "B">>, <<"D", "e", "p", "l", "o", "y", " ", "g", "u", "i",
      "d", "e">>, <<"S", "e", "c", "u", "r", "i", "t", "y", " ", "a", "u", "d", "i", "t">>,
      <<"R", "e", "q", "u", "i", "r", "e", "m", "e", "n", "t", "s">>, <<"O", "p", "e", "r",
      "a", "t", "i", "o", "n", " ", "m", "a", "n", "u", "a", "l">>, <<"B", "u", "i", "l",
      "d">>, <<"d">>, <<"b">>, <<" ">>, <<"U+753B", "U+9762", "U+8A2D", "U+8A08">>, <<"E",
      "n", "c", "r", "y", "p", "t", "i", "o", "n">> }

InitRow ==
    /\ \E name \in CellTexts : \E description \in CellTexts :
         row = [kind |-> "cells", name |-> name, description |-> description]
    /\ state = create_initial_state
    /\ pc = "read"
    /\ futures = NoFutures
    /\ results = <<>>
    /\ iteration = 0
    /\ decisions = <<>>
    /\ calls = NoCalls
    /\ final_state = None
    /\ files = {}
    /\ gate = <<>>
    /\ faults = {}
    /\ call = NoCall
    /\ env = DefaultEnv
    /\ report = NoReport

\* one pass of the loop over df.iterrows(), lines 42-52
ReadRow ==
    /\ pc = "read"
    /\ row.kind = "cells"
    /\ row' = read_row(row.name, row.description) @@ [cells |-> <<row.name, row.description>>]
    /\ pc' = "row_read"
    /\ UNCHANGED <<state, futures, results, iteration, decisions, calls, final_state, files, gate,
                   faults, call, env, report>>

SpecRow == InitRow /\ [][ReadRow]_vars

-----------------------------------------------------------------------------
(* The join of the primary parallel path on its own: the three calls have completed in *)
(* some order, and what they returned is reflected in the state                        *)

CompletionOrders ==
    { order \in [1..3 -> AgentTypeSet] : \A i, j \in 1..3 : order[i] = order[j] => i = j }

\* the results dict after the as_completed loop, lines 165-181: the calls that returned, in
\* the order of their completion
RECURSIVE Collected(_, _)
Collected(order, outcome) ==
    IF order = <<>> THEN <<>>
    ELSE LET earlier == Collected(SubSeq(order, 1, Len(order) - 1), outcome)
             a == order[Len(order)]
         IN IF outcome[a].kind = "returned"
            THEN PutResult(earlier, a, outcome[a].value)
            ELSE earlier

InitJoin ==
    /\ \E order \in CompletionOrders :
         \E outcome \in [AgentTypeSet -> UNION {EvaluatorOutcomes(a) : a \in AgentTypeSet}] :
            /\ \A a \in AgentTypeSet : outcome[a] \in EvaluatorOutcomes(a)
            /\ futures = outcome
            /\ results = Collected(order, outcome)
    /\ state = create_initial_state
    /\ pc = "parallel"
    /\ iteration = 0
    /\ decisions = <<>>
    /\ calls = [NoCalls EXCEPT !.business = 1, !.quality = 1, !.constraints = 1]
    /\ final_state = None
    /\ files = {}
    /\ gate = <<>>
    /\ faults = {}
    /\ row = NoRow
    /\ call = NoCall
    /\ env = DefaultEnv
    /\ report = NoReport

\* lines 186-208, the results dict still in scope
ReflectCollected ==
    /\ pc = "parallel"
    /\ AllCollected
    /\ state' = reflect_primary(state, results)
    /\ pc' = "reflected"
    /\ UNCHANGED <<futures, results, iteration, decisions, calls, final_state, files, gate,
                   faults, call, env, report, row>>

NextJoin == ReflectCollected

SpecJoin == InitJoin /\ [][NextJoin]_vars

-----------------------------------------------------------------------------
(* Properties *)

EvaluationKeys == {"business_evaluation", "quality_evaluation", "constraints_evaluation"}

SlotOf(agent_type) ==
    CASE agent_type = "business" -> "business_evaluation"
      [] agent_type = "quality" -> "quality_evaluation"
      [] agent_type = "constraints" -> "constraints_evaluation"

\* the slot holds a dict whose "success" entry is True
PresentAndSuccessful(s, k) ==
    /\ k \in DOMAIN s
    /\ DOMAIN s[k] # {"py_none"}
    /\ DOMAIN s[k] # {}
    /\ "success" \in DOMAIN s[k]
    /\ s[k].success = TRUE

\* C1: is_evaluation_complete(state) returns True exactly when each of the three
\* evaluation slots is present, set and has success = True; a missing, None, empty or
\* unsuccessful slot makes it return False.
C1_GateIffAllThreeSuccessful ==
    gate # <<>> => (gate[1] <=> \A k \in EvaluationKeys : PresentAndSuccessful(state, k))

\* C1 witness: the gate was evaluated on two successes and one success = False result
C1_Witness ==
    /\ gate = <<FALSE>>
    /\ PresentAndSuccessful(state, "business_evaluation")
    /\ PresentAndSuccessful(state, "quality_evaluation")
    /\ "constraints_evaluation" \in DOMAIN state
    /\ state.constraints_evaluation = ErrorResponse("evaluation failed")

\* C2: when the Estimation Stage is entered with an incomplete evaluation set, the
\* Estimation evaluator is not invoked, "Parallel evaluation not completed" is appended
\* to errors, and estimation_result and session_logs keep their values.
C2_GateBlocksEstimation ==
    [][(pc = "estimation" /\ ~(\A k \in EvaluationKeys : PresentAndSuccessful(state, k)))
         => /\ calls'.generate_estimate = calls.generate_estimate
            /\ state'.errors = Append(state.errors, "Parallel evaluation not completed")
            /\ state'.estimation_result = state.estimation_result
            /\ state'.session_logs = state.session_logs]_vars

\* C2 witness: the Estimation Stage has run on an incomplete evaluation set
C2_Witness ==
    /\ pc = "await_decision"
    /\ gate = <<FALSE>>
    /\ calls.generate_estimate = 0
    /\ state.errors # <<>>
    /\ Last(state.errors) = "Parallel evaluation not completed"
    /\ IsNone(state.estimation_result)

\* the evaluator behind future f did not deliver a success
Faulted(f) == f.kind = "raised" \/ (f.kind = "returned" /\ ~GetSuccess(f.value))

Succeeded(f) == f.kind = "returned" /\ GetSuccess(f.value)

\* C3: when the Parallel Evaluation Stage reflects its results and exactly one of the
\* three evaluators raised or failed while the other two succeeded, the two successes
\* are stored in their slots, whatever the completion order, and the gate is closed.
C3_FanOutIsolation ==
    [][(/\ pc \in {"parallel", "fallback"}
        /\ pc' = "estimation"
        /\ state'.current_step = "parallel_evaluation_complete"
        /\ Cardinality({a \in AgentTypeSet : Faulted(futures[a])}) = 1
        /\ Cardinality({a \in AgentTypeSet : Succeeded(futures[a])}) = 2)
         => /\ \A a \in AgentTypeSet :
                  Succeeded(futures[a]) => state'[SlotOf(a)] = futures[a].value
            /\ ~is_evaluation_complete(state')]_vars

\* C3 witness: the stage has finished with the business evaluator raised (nothing about
\* it in the logs) and the other two results stored
C3_Witness ==
    /\ pc = "estimation"
    /\ state.current_step = "parallel_evaluation_complete"
    /\ IsNone(state.business_evaluation)
    /\ state.quality_evaluation = SuccessResult("quality")
    /\ state.constraints_evaluation = SuccessResult("constraints")
    /\ Len(state.session_logs) = 2

\* C4: with no approving decision the loop is left after exactly max_iterations
\* refinement cycles with user_approved false, no further decision is asked for, and
\* leaving at the bound returns the state as it is (nothing is added to errors).
C4_RejectionsTerminateAtBound ==
    /\ [](pc \in {"await_decision", "await_feedback"} => iteration < max_iterations)
    /\ []((pc = "loop_exit" /\ ~state.user_approved)
            => /\ iteration = max_iterations
               /\ Len(decisions) = max_iterations
               /\ \A i \in 1..Len(decisions) : decisions[i] # "approve")
    /\ [][(pc = "loop_exit" /\ ~state.user_approved)
            => /\ pc' = "returned"
               /\ state'.errors = state.errors
               /\ final_state' = state]_vars

\* C4 witness: three rejections answered, the loop left unapproved
C4_Witness ==
    /\ pc = "returned"
    /\ decisions = <<"reject", "reject", "reject">>
    /\ iteration = max_iterations
    /\ ~final_state.user_approved

\* C5: when the k-th decision is an affirmative token after k-1 rejections, the loop is
\* left at once with user_approved true after exactly k-1 refinement cycles, k <= 3.
C5_ApprovalTerminatesAtOnce ==
    (decisions # <<>> /\ Last(decisions) = "approve")
        => /\ state.user_approved
           /\ state.current_step = "approved"
           /\ pc \in {"loop_exit", "returned", "done"}
           /\ iteration = Len(decisions) - 1
           /\ Len(decisions) <= max_iterations
           /\ \A i \in 1..(Len(decisions) - 1) : decisions[i] # "approve"

\* C5 witness: [reject, reject, approve] has been answered
C5_Witness ==
    /\ decisions = <<"reject", "reject", "approve">>
    /\ pc = "returned"
    /\ final_state.user_approved
    /\ iteration = 2

\* C6: every step leaves iteration_history, session_logs, errors and warnings with
\* their former contents as a prefix of the new contents.
C6_AppendOnly ==
    [][/\ IsPrefix(state.iteration_history, state'.iteration_history)
       /\ IsPrefix(state.session_logs, state'.session_logs)
       /\ IsPrefix(state.errors, state'.errors)
       /\ IsPrefix(state.warnings, state'.warnings)]_vars

\* C6 witness: history, logs and errors have each grown more than once, the fallback
\* path and a raising refinement included
C6_Witness ==
    /\ Len(state.iteration_history) >= 2
    /\ Len(state.session_logs) >= 5
    /\ Len(state.errors) >= 2
    /\ "primary_path" \in faults
    /\ "refinement" \in faults

\* C7 (as claimed): after N refinement cycles iteration_history holds N entries, or
\* N + 1 with a snapshot of the initial estimate, also when the estimate is absent or a
\* refinement fails.
C7_OneSnapshotPerCycle ==
    \/ Len(state.iteration_history) = iteration
    \/ Len(state.iteration_history) = iteration + 1

StrictlyIncreasingIterationNumbers(history) ==
    \A i \in 1..(Len(history) - 1) :
        history[i].iteration_number < history[i + 1].iteration_number

C10_InterruptPreservesState ==
    pc = "interrupted"
        => /\ ~IsNone(final_state)
           /\ final_state.session_logs = state.session_logs
           /\ final_state.errors = state.errors
           /\ final_state.iteration_history = state.iteration_history

\* C11 (as claimed): a hung evaluator call does not block the Parallel Evaluation Stage:
\* with one call hung, the stage can always take a further step (collect another
\* result, time the hung call out, or join), so it is never stuck behind the hung call.
C11_HungCallDoesNotBlock ==
    (pc \in {"parallel", "fallback"} /\ \E a \in AgentTypeSet : futures[a].kind = "hung")
        => ENABLED <<Next>>_vars

\* the stage joins: the as_completed loop has ended and the results are reflected
StageJoins ==
    /\ pc \in {"parallel", "fallback"}
    /\ pc' = "estimation"
    /\ state'.current_step = "parallel_evaluation_complete"

\* why the evaluator behind the faulted future f did not deliver a success
ReasonOf(f) ==
    IF f.kind = "raised" THEN f.msg ELSE Get(f.value, "error", "Unknown error")

\* C12 (as claimed): when the Parallel Evaluation Stage joins, each of the three
\* outcomes (returned success, returned failure, raised fault) adds exactly one
\* session_logs entry, and each failing outcome adds one "<evaluator name>: <reason>"
\* entry to errors.
C12_EveryOutcomeLogged ==
    [][StageJoins
         => /\ Len(state'.session_logs) = Len(state.session_logs) + 3
            /\ Len(state'.errors)
                  = Len(state.errors) + Cardinality({a \in AgentTypeSet : Faulted(futures[a])})
            /\ \A a \in AgentTypeSet :
                  Faulted(futures[a])
                    => \E i \in (Len(state.errors) + 1)..Len(state'.errors) :
                          state'.errors[i] = AgentName(a) \o ": " \o ReasonOf(futures[a])]_vars

\* C13: folding an evaluator result writes the evaluator's slot only when the result is
\* a success; a failure leaves the slot with the value it had (or unset), and the other
\* three slots keep their values in either case.
C13_FoldWritesOnlySuccess ==
    [][pc = "fold"
         => /\ state'[PayloadKey(call.agent)]
                 = IF GetSuccess(call.result) THEN call.result
                   ELSE state[PayloadKey(call.agent)]
            /\ \A other \in AgentKinds \ {call.agent} :
                  state'[PayloadKey(other)] = state[PayloadKey(other)]]_vars

\* C13 witness: a failed quality evaluation was folded into a state that held an
\* earlier quality result and the other results; all are still there
C13_Witness ==
    /\ pc = "folded"
    /\ call.agent = "quality"
    /\ ~GetSuccess(call.result)
    /\ state.quality_evaluation = SuccessResult("quality")
    /\ state.business_evaluation = SuccessResult("business")
    /\ state.estimation_result = EstimateResult(1)
    /\ state.errors # <<>>

\* the line items of the estimate being reported, and the sum of one of their fields
\* taken item by item (a missing field counts 0)
ReportedItems == state.estimation_result.estimation_result.deliverable_estimates

RECURSIVE SigmaUpTo(_, _, _)
SigmaUpTo(items, field, n) ==
    IF n = 0 THEN 0
    ELSE SigmaUpTo(items, field, n - 1)
           + (IF field \in DOMAIN items[n] THEN items[n][field] ELSE 0)

Sigma(items, field) == SigmaUpTo(items, field, Len(items))

\* the current estimate with the Evaluator-supplied summary replaced by fs
Perturbed(s, fs) ==
    [s EXCEPT !.estimation_result.estimation_result.financial_summary = fs]

\* C14: the totals reported on the display and in the sheet's Total row are the sum of the
\* items' cost and the sum of the items' final_effort_days (the display shows the cost
\* through format_amount), and they are the same whatever the financial_summary says.
C14_TotalsAreItemSums ==
    /\ report.kind = "estimate" =>
         /\ report.total_effort = Sigma(ReportedItems, "final_effort_days")
         /\ report.total_amount = format_amount(Sigma(ReportedItems, "cost"), env.currency)
         /\ \A fs \in Summaries(ReportedItems) :
              LET other == display_current_results(Perturbed(state, fs), env.currency)
              IN /\ other.total_effort = report.total_effort
                 /\ other.total_amount = report.total_amount
    /\ report.kind = "sheet" =>
         /\ report.total_row.effort = Sigma(ReportedItems, "final_effort_days")
         /\ report.total_row.cost = Sigma(ReportedItems, "cost")
         /\ \A fs \in Summaries(ReportedItems) :
              merge_estimation_data(Perturbed(state, fs).estimation_result,
                                    env.currency).total_row = report.total_row

C14_Witness ==
    /\ pc = "written"
    /\ report.kind = "sheet"
    /\ ReportedItems = <<Item_API, Item_UI>>
    /\ state.estimation_result.estimation_result.financial_summary
         = [total_effort_days |-> 200, total |-> 100000000]
    /\ report.total_row.effort = 231
    /\ report.total_row.cost = 110500050

\* the confidence shown by the last report, in hundredths
ReportedConfidence ==
    IF report.kind = "sheet" THEN report.total_row.confidence ELSE report.confidence

\* C15: the confidence reported on the display and in the Total row is the effort-weighted
\* mean sum(confidence * final_effort_days) / sum(final_effort_days), to the two decimals
\* that are printed, and it is 0 when the efforts sum to 0 or there are no items.
C15_WeightedConfidence ==
    report.kind \in {"estimate", "sheet"} =>
        LET total_effort == Sigma(ReportedItems, "final_effort_days")
            weighted == SumWeighted(ReportedItems)
            gap == ReportedConfidence * total_effort - weighted
        IN IF total_effort > 0
           THEN 2 * gap <= total_effort /\ 2 * gap >= 0 - total_effort
           ELSE ReportedConfidence = 0

C15_Witness ==
    /\ pc = "displayed"
    /\ report.kind = "estimate"
    /\ ReportedItems = <<Item_Docs, Item_Docs>>
    /\ report.confidence = 0
    /\ report.total_effort = 0

\* the line items of a history snapshot
SnapshotItems(entry) == entry.estimation_result.estimation_result.deliverable_estimates

\* C16 (as claimed): whenever the history is summarized, the first and the last total it
\* reports are the sums over that snapshot's line items, so that the reported change does
\* not depend on the financial_summary stored in the snapshots.
C16_HistoryTotalsFromItems ==
    (report.kind = "estimate" /\ report.history.printed # {}) =>
        LET first_items == SnapshotItems(state.iteration_history[1])
            last_items == SnapshotItems(Last(state.iteration_history))
        IN /\ report.history.first_total = Sigma(first_items, "final_effort_days")
           /\ report.history.last_total = Sigma(last_items, "final_effort_days")
           /\ report.history.effort_delta =
                  Sigma(last_items, "final_effort_days") - Sigma(first_items, "final_effort_days")

\* the same with the snapshots restricted to those whose financial_summary is consistent
\* with their line items
C16_HistoryTotalsFromConsistentSummaries ==
    (/\ report.kind = "estimate"
     /\ report.history.printed # {}
     /\ \A i \in {1, Len(state.iteration_history)} :
          snapshot_summary(state.iteration_history[i]).total_effort_days
              = Sigma(SnapshotItems(state.iteration_history[i]), "final_effort_days")) =>
        report.history.effort_delta =
            Sigma(SnapshotItems(Last(state.iteration_history)), "final_effort_days")
              - Sigma(SnapshotItems(state.iteration_history[1]), "final_effort_days")

\* a history of at least two snapshots whose first and last carry a financial_summary
HistoryHasTotals ==
    /\ Len(state.iteration_history) >= 2
    /\ ~Falsy(snapshot_summary(state.iteration_history[1]))
    /\ ~Falsy(snapshot_summary(Last(state.iteration_history)))

FirstTotalEffort == Get(snapshot_summary(state.iteration_history[1]), "total_effort_days", 0)

LastTotalEffort == Get(snapshot_summary(Last(state.iteration_history)), "total_effort_days", 0)

\* C17 (as claimed): with at least two snapshots the history summary reports the effort
\* change last - first and the cost change likewise, and it reports the change rate
\* (last - first) / first * 100 exactly when the first total effort is above 0.
C17_HistoryDeltasReported ==
    (report.kind = "estimate" /\ HistoryHasTotals) =>
        /\ "effort_change" \in report.history.printed
        /\ report.history.effort_delta = LastTotalEffort - FirstTotalEffort
        /\ "cost_change" \in report.history.printed
        /\ ("change_rate" \in report.history.printed) <=> (FirstTotalEffort > 0)

\* what does hold: the effort change is reported, and then the summary ends with the
\* exception of the Cost Change line
C17_EffortDeltaThenException ==
    (report.kind = "estimate" /\ HistoryHasTotals) =>
        /\ report.history.printed = {"effort_change"}
        /\ report.history.effort_delta = LastTotalEffort - FirstTotalEffort
        /\ report.history.raised = SignNotAllowed

\* the example of a first total of 20 and a last total of 25 person-days
C17_ExampleDisplayed ==
    /\ report.kind = "estimate"
    /\ HistoryHasTotals
    /\ FirstTotalEffort = 200
    /\ LastTotalEffort = 250

\* C18 (as claimed): when all attempts of an evaluator call have failed, the failure is
\* an entry of the state's errors once the result is folded in, for every evaluator kind.
C18_ExhaustedRetriesSurfaceAsError ==
    (pc = "folded" /\ call.origin = "retries_exhausted") => state.errors # <<>>

\* the same for the Quality and Constraints evaluators alone
C18_BaseAgentsSurfaceError ==
    (pc = "folded" /\ call.origin = "retries_exhausted" /\ call.agent \notin PydanticAgents) =>
        /\ Len(state.errors) = 1
        /\ state[PayloadKey(call.agent)] \in PriorSlots(call.agent)

\* the fallback marker: _agent_metadata.status = "dummy"
Marked(r) ==
    /\ ~IsNone(r)
    /\ Get(Get(r, "_agent_metadata", EmptyDict), "status", "") = "dummy"

\* the result of the call came from the fallback generator and was stored
StoredFallback(agent) ==
    /\ pc = "folded"
    /\ call.agent = agent
    /\ call.origin \in {"retries_exhausted", "no_api_key"}
    /\ GetSuccess(call.result)

\* C19: an evaluation or estimation held in the state carries the fallback marker exactly
\* when it came from the fallback generator; a genuine Evaluator success never carries it.
C19_FallbackIsMarked ==
    \A agent \in AgentKinds :
        /\ StoredFallback(agent) => state[PayloadKey(agent)] = call.result
        /\ Marked(state[PayloadKey(agent)]) <=> StoredFallback(agent)

C19_Witness ==
    /\ pc = "folded"
    /\ call.agent = "estimation"
    /\ call.origin = "retries_exhausted"
    /\ GetSuccess(state.estimation_result)
    /\ Marked(state.estimation_result)
    /\ state.errors = <<>>

\* the Estimation evaluator has returned a failure in the Estimation Stage
EstimationReturnedFailure ==
    \E i \in DOMAIN state.session_logs :
        /\ state.session_logs[i].agent_name = "EstimationAgent"
        /\ ~state.session_logs[i].success

\* C20: once the Estimation evaluator has returned a failure in the Estimation Stage, the
\* errors hold its entry, estimation_result is unset and stays unset, the display reports
\* that there is no estimate, and no file is written, whether or not the user approves.
C20_EstimationFailureBlocksOutput ==
    EstimationReturnedFailure =>
        /\ \E i \in DOMAIN state.errors : state.errors[i] = "EstimationAgent: estimation failed"
        /\ IsNone(state.estimation_result)
        /\ report.kind = "estimation_not_completed"
        /\ files = {}

C20_Witness ==
    /\ pc = "done"
    /\ EstimationReturnedFailure
    /\ final_state.user_approved
    /\ report.kind = "estimation_not_completed"
    /\ files = {}

\* the refinement loop has ended at its bound without an approval
LoopExhausted ==
    /\ pc = "loop_exit"
    /\ ~state.user_approved
    /\ iteration = max_iterations

\* C21 (as claimed): when the loop exits unapproved because the bound is reached, the
\* state's iteration_count equals the bound, as the loop counter does.
C21_IterationCountIsLoopCounter ==
    LoopExhausted => state.iteration_count = max_iterations

\* what does hold: the loop counter is at the bound and iteration_count lies between
\* 0 and one above it
C21_IterationCountRange ==
    (pc = "loop_exit" /\ ~state.user_approved) =>
        /\ iteration = max_iterations
        /\ state.iteration_count \in 0..(max_iterations + 1)

\* every value of that range is taken
C21_CountAboveBound == LoopExhausted /\ state.iteration_count = max_iterations + 1

C21_CountZero == LoopExhausted /\ state.iteration_count = 0

\* a step that answers the decision prompt with something that is not an affirmative token
AnswersWithoutApproval ==
    /\ pc = "await_decision"
    /\ decisions' # decisions
    /\ Last(decisions') \in {"reject", "other"}

\* a step in which a refinement cycle runs
Refines == iteration' = iteration + 1

\* C22 (as claimed): every non-empty answer to the decision prompt that is not an
\* affirmative token, rejection tokens included, becomes user_feedback as it is and
\* starts a refinement.
C22_AnyOtherInputIsFeedback ==
    [][AnswersWithoutApproval =>
          /\ Refines
          /\ \E raw \in RawResponses :
                /\ raw # <<>>
                /\ strip(lower(raw)) \notin ApproveTokens
                /\ state'.user_feedback = raw]_vars

\* C22 (amended): a rejection token only opens the feedback prompt, and what is typed
\* there becomes user_feedback as it is and starts the refinement; any other answer that
\* is not an affirmative token becomes user_feedback stripped and lower-cased and starts
\* the refinement at once.
C22_FeedbackFromPromptOrNormalisedAnswer ==
    [][/\ (AnswersWithoutApproval /\ Last(decisions') = "reject") =>
             /\ pc' = "await_feedback"
             /\ ~Refines
             /\ state'.user_feedback = state.user_feedback
       /\ (AnswersWithoutApproval /\ Last(decisions') = "other") =>
             /\ Refines
             /\ \E raw \in RawResponses :
                   /\ strip(lower(raw)) \notin ApproveTokens \cup RejectTokens
                   /\ state'.user_feedback = strip(lower(raw))
       /\ (pc = "await_feedback" /\ pc' \in {"await_decision", "loop_exit"}) =>
             /\ Refines
             /\ state'.user_feedback \in RawFeedbacks]_vars

C22_Witness ==
    /\ pc = "await_decision"
    /\ decisions = <<"reject", "other">>
    /\ iteration = 2
    /\ state.user_feedback = <<"f", "a", "s", "t">>
    /\ Len(state.iteration_history) = 2
    /\ state.iteration_history[1].user_feedback = <<"S", "e", "c", "u", "r", "i", "t", "y">>

\* an evaluator call of the Parallel Evaluation Stage has not completed or faulted yet
InFlight == \E a \in AgentTypeSet : futures[a].kind \in {"pending", "hung"}

\* C23: while any of the three evaluator calls is in flight no field of the shared state
\* is written; within the Parallel Evaluation Stage the state changes only in the one
\* step that follows the completion (or fault) of all three calls and ends the stage.
C23_SingleWriterAfterJoin ==
    [][/\ InFlight => state' = state
       /\ (pc \in {"parallel", "fallback"} /\ state' # state) =>
             /\ AllCollected
             /\ pc' = "estimation"]_vars

C23_Witness ==
    /\ pc = "parallel"
    /\ futures["business"] = Returned(SuccessResult("business"))
    /\ futures["quality"].kind = "raised"
    /\ futures["constraints"].kind = "pending"
    /\ state = create_initial_state

\* C24: no file is written before the refinement loop has terminated: the files exist only
\* once the run is done, and the one step that writes them starts from the state the
\* workflow has returned, after an approval has ended the loop.
C24_OutputOnlyAfterLoop ==
    [][/\ pc' # "done" => files' = {}
       /\ files' # files =>
             /\ pc = "returned"
             /\ state.current_step = "approved"
             /\ Last(decisions) = "approve"]_vars

C24_Witness ==
    /\ pc = "done"
    /\ files = {"estimate.xlsx", "session_log.json"}
    /\ iteration = 2
    /\ Len(state.session_logs) >= 5

\* a step in which a refinement cycle runs on an estimate (the snapshot is taken)
RefinesAnEstimate == Refines /\ ~IsNone(state.estimation_result)

-----------------------------------------------------------------------------
(* C26 *)

RuleOrder ==
    << <<"documentation", Keywords_documentation>>,
       <<"frontend_development", Keywords_frontend>>,
       <<"backend_development", Keywords_backend>>,
       <<"database", Keywords_database>>,
       <<"testing", Keywords_testing>>,
       <<"security", Keywords_security>>,
       <<"deployment", Keywords_deployment>> >>

\* the rules with a keyword that occurs in the text, whatever the case of the text's letters
MatchingRules(text) ==
    {i \in 1..Len(RuleOrder) :
        \E keyword \in RuleOrder[i][2] :
            \E k \in 0..(Len(text) - Len(keyword)) :
                \A j \in 1..Len(keyword) :
                    \/ text[k + j] = keyword[j]
                    \/ /\ text[k + j] \in DOMAIN UpperToLower
                       /\ UpperToLower[text[k + j]] = keyword[j]}

FirstRuleCategory(text) ==
    IF MatchingRules(text) = {} THEN "other"
    ELSE RuleOrder[CHOOSE i \in MatchingRules(text) : \A j \in MatchingRules(text) : i <= j][1]

Text_LoginScreen == <<"L", "o", "g", "i", "n", " ", "S", "c", "r", "e", "e", "n">>

Text_UserAuthenticationUI ==
    <<"U", "s", "e", "r", " ", "a", "u", "t", "h", "e", "n", "t", "i", "c", "a", "t", "i", "o", "n",
      " ", "U", "I">>

\* C26: the category of a row is the category of the first rule, in the order documentation,
\* frontend, backend, database, testing, security, deployment, with a keyword that occurs,
\* whatever the case, in the row's name and description put together, and "other" when no
\* rule has one; ("Login Screen", "User authentication UI") is frontend_development.
C26_FirstMatchingRuleWins ==
    row.kind = "deliverable" =>
        /\ row.category = FirstRuleCategory(row.name \o <<" ">> \o row.description)
        /\ (row.name = Text_LoginScreen /\ row.description = Text_UserAuthenticationUI)
              => row.category = "frontend_development"

\* the example row has been read: it matches the frontend and the security rule
C26_Witness ==
    /\ row.kind = "deliverable"
    /\ row.name = Text_LoginScreen
    /\ row.description = Text_UserAuthenticationUI
    /\ Cardinality(MatchingRules(row.name \o <<" ">> \o row.description)) >= 2
    /\ row.category = "frontend_development"

\* a row that matches no rule has been read
C26_WitnessOther ==
    /\ row.kind = "deliverable"
    /\ MatchingRules(row.name \o <<" ">> \o row.description) = {}
    /\ row.category = "other"

-----------------------------------------------------------------------------
(* C27 *)

\* the step appends one entry to the history
TakesSnapshot == Len(state'.iteration_history) = Len(state.iteration_history) + 1

\* C27: a history entry is a snapshot taken before the refinement: the k-th entry is
\* appended in the k-th refinement cycle, holds the estimate that was current when that
\* cycle's feedback was given and carries that feedback; it is never changed afterwards, and
\* when the refinement replaces the estimate by another one the last entry holds the old
\* estimate, not the one in the state.
C27_EntryIsPreRefinementSnapshot ==
    [][/\ IsPrefix(state.iteration_history, state'.iteration_history)
       /\ state'.iteration_history # state.iteration_history =>
            /\ Refines
            /\ TakesSnapshot
            /\ Len(state'.iteration_history) = iteration'
            /\ Last(state'.iteration_history).estimation_result = state.estimation_result
            /\ Last(state'.iteration_history).user_feedback = state'.user_feedback
            /\ state'.estimation_result # state.estimation_result =>
                 Last(state'.iteration_history).estimation_result # state'.estimation_result
       /\ (Refines /\ ~IsNone(state.estimation_result)) => TakesSnapshot]_vars

\* two refinements were applied: each entry holds the estimate its refinement replaced,
\* with its own feedback, and the last entry differs from the estimate in the state
C27_Witness ==
    /\ iteration = 2
    /\ Len(state.iteration_history) = 2
    /\ state.iteration_history[1].estimation_result = EstimateResult(1)
    /\ state.iteration_history[2].estimation_result = EstimateResult(2)
    /\ state.estimation_result = EstimateResult(1)
    /\ state.iteration_history[1].user_feedback # <<>>
    /\ state.iteration_history[1].user_feedback # state.iteration_history[2].user_feedback
    /\ state.iteration_history[2].user_feedback = state.user_feedback

-----------------------------------------------------------------------------
(* C28 *)

\* the step calls refine_estimate
CallsRefine == calls'.refine_estimate = calls.refine_estimate + 1

\* C28: the baseline passed to refine_estimate in the k-th refinement cycle is the estimate
\* of the second-to-last history entry: None in the first cycle, and from the second cycle
\* on the estimate that was current before the previous refinement was applied, which is
\* the estimate the previous cycle passed as the current one.
C28_BaselineIsTwoBack ==
    [][CallsRefine =>
         LET history == state'.iteration_history
             passed == calls'.last_refine
         IN /\ Refines
            /\ passed.current_estimate = state.estimation_result
            /\ iteration' = 1 => IsNone(passed.previous_estimate)
            /\ iteration' >= 2 =>
                 /\ Len(history) >= 2
                 /\ passed.previous_estimate = history[Len(history) - 1].estimation_result
                 /\ passed.previous_estimate = calls.last_refine.current_estimate]_vars

\* the third cycle has called refine_estimate with the estimate the second cycle started
\* from as the baseline, which is neither the current estimate nor the first one
C28_Witness ==
    /\ iteration = 3
    /\ calls.refine_estimate = 3
    /\ state.iteration_history[1].estimation_result = EstimateResult(1)
    /\ state.iteration_history[2].estimation_result = EstimateResult(2)
    /\ state.iteration_history[3].estimation_result = EstimateResult(1)
    /\ calls.last_refine.previous_estimate = EstimateResult(2)
    /\ calls.last_refine.current_estimate = EstimateResult(1)

-----------------------------------------------------------------------------
(* C29 *)

\* the step calls refine_estimate and the call returns a failure
RefineReturnsFailure ==
    /\ CallsRefine
    /\ calls'.last_refine.outcome.kind = "returned"
    /\ ~GetSuccess(calls'.last_refine.outcome.value)

\* C29: a refinement cycle whose refine_estimate call returns a failure appends one
\* session log entry of the call and one error naming it, leaves estimation_result as it
\* was, still adds one to iteration_count, and goes on to the next loop test: the next
\* decision, or the end of the loop at the bound.
C29_FailedRefinementKeepsEstimate ==
    [][RefineReturnsFailure =>
         /\ Len(state'.session_logs) = Len(state.session_logs) + 1
         /\ Last(state'.session_logs).agent_name = "EstimationAgent_Refinement"
         /\ Last(state'.session_logs).success = FALSE
         /\ state'.errors
              = Append(state.errors,
                       "EstimationAgent_Refinement: "
                           \o calls'.last_refine.outcome.value.error)
         /\ state'.estimation_result = state.estimation_result
         /\ ~IsNone(state'.estimation_result)
         /\ state'.iteration_count = state.iteration_count + 1
         /\ state'.user_approved = FALSE
         /\ iteration' = iteration + 1
         /\ pc' = IF iteration' < max_iterations THEN "await_decision" ELSE "loop_exit"]_vars

\* a first refinement replaced the estimate, the second one returned a failure and the
\* loop is at its next decision with the estimate of the first refinement
C29_Witness ==
    /\ pc = "await_decision"
    /\ iteration = 2
    /\ calls.refine_estimate = 2
    /\ calls.last_refine.outcome.kind = "returned"
    /\ ~GetSuccess(calls.last_refine.outcome.value)
    /\ state.iteration_history[1].estimation_result = EstimateResult(1)
    /\ state.estimation_result = EstimateResult(2)
    /\ state.iteration_count = 3
    /\ Last(state.errors) = "EstimationAgent_Refinement: estimation failed"

-----------------------------------------------------------------------------
(* C30 *)

\* the model has answered in this step: the attempt that succeeds
AttemptSucceeds == pc = "call" /\ pc' = "fold" /\ call'.origin = "model"

\* the seconds slept before the attempts 2..n+1
RECURSIVE SleptBefore(_, _)
SleptBefore(agent, n) ==
    IF n = 0 THEN 0 ELSE SleptBefore(agent, n - 1) + backoff(agent, n - 1)

\* C30: one evaluator invocation makes at most 3 attempts and returns in the end; the
\* attempt that succeeds returns at once and its number, one more than the failed attempts
\* before it, is recorded with the answer; a further attempt is made only after a failed
\* one and a sleep; the third failed attempt returns at once, without another attempt and
\* without a sleep; nothing is attempted once the invocation has returned.
C30_BoundedAttemptsThenReturn ==
    /\ [](/\ call.attempt \in 0..max_retries
          /\ call.attempt = max_retries => pc # "call"
          /\ pc = "call" => call.waited = SleptBefore(call.agent, call.attempt)
          /\ call.waited <= SleptBefore(call.agent, max_retries - 1))
    /\ [][/\ AttemptSucceeds =>
               /\ call'.attempt = call.attempt
               /\ call'.waited = call.waited
               /\ call.attempt + 1 <= max_retries
               /\ \/ Get(Get(call'.result, "_agent_metadata", EmptyDict), "attempt_number", 0)
                       = call.attempt + 1
                  \/ /\ call.agent \notin PydanticAgents
                     /\ call'.result
                          = create_error_response(call.agent,
                                                  "Invalid format for evaluation results")
          /\ call'.attempt # call.attempt =>
               /\ call'.attempt = call.attempt + 1
               /\ pc = "call"
               /\ IF call'.attempt < max_retries
                  THEN /\ pc' = "call"
                       /\ call'.waited = call.waited + backoff(call.agent, call.attempt)
                       /\ IsNone(call'.result)
                  ELSE /\ pc' = "fold"
                       /\ call'.waited = call.waited
                       /\ call'.origin = "retries_exhausted"
          /\ pc # "call" => call' = call]_vars
    /\ <>(pc = "folded")

\* an invocation answered at its third attempt, after two failed attempts and two sleeps
C30_Witness ==
    /\ pc = "fold"
    /\ call.origin = "model"
    /\ call.attempt = 2
    /\ call.agent = "business"
    /\ call.waited = 3
    /\ call.result._agent_metadata.attempt_number = 3

\* an invocation that gave up after its third failed attempt
C30_WitnessExhausted ==
    /\ pc = "fold"
    /\ call.origin = "retries_exhausted"
    /\ call.attempt = max_retries
    /\ call.agent = "quality"
    /\ call.waited = 2

-----------------------------------------------------------------------------
(* C31 *)

\* the step is a refinement cycle whose refine_estimate call returned a success
RefineSucceeds ==
    /\ CallsRefine
    /\ calls'.last_refine.outcome.kind = "returned"
    /\ GetSuccess(calls'.last_refine.outcome.value)

ResponseWarning == "Response time requirements may not be reflected"

\* the technical assumptions of the estimate in the state s
AssumptionsOf(s) ==
    Get(Get(s.estimation_result, "estimation_result", EmptyDict), "technical_assumptions",
        EmptyDict)

\* the feedback names a response time or performance, and the assumptions name neither
UnreflectedPerformanceRequest(s) ==
    /\ \/ Contains(lower(s.user_feedback), Keyword_response)
       \/ Contains(lower(s.user_feedback), Keyword_performance)
    /\ ~Mentions(AssumptionsOf(s), Keyword_response)
    /\ ~Mentions(AssumptionsOf(s), Keyword_performance)

\* C31 (as claimed): after a successful refinement, whenever the feedback mentions a
\* response time or performance and the technical assumptions of the refined estimate
\* mention neither, the verification emits the response-time warning.
C31_WarnsOnUnreflectedPerformance ==
    [][(RefineSucceeds /\ UnreflectedPerformanceRequest(state')) =>
          ResponseWarning \in verify_modification_applied(state', state'.user_feedback).value]_vars

\* what the code does: the warning is emitted exactly when the feedback holds "response" in
\* any case and the literal text "5seconds" and the assumptions name neither term
C31_WarnsOnlyOnLiteralExample ==
    [][RefineSucceeds =>
          (ResponseWarning \in verify_modification_applied(state', state'.user_feedback).value
             <=> /\ Contains(lower(state'.user_feedback), Keyword_response)
                 /\ Contains(state'.user_feedback, Text_5seconds)
                 /\ ~Mentions(AssumptionsOf(state'), Keyword_response)
                 /\ ~Mentions(AssumptionsOf(state'), Keyword_performance))]_vars

\* the warning is emitted for the request that holds the literal example
C31_WarningEmitted ==
    /\ calls.refine_estimate >= 1
    /\ calls.last_refine.outcome.kind = "returned"
    /\ GetSuccess(calls.last_refine.outcome.value)
    /\ ResponseWarning \in verify_modification_applied(state, state.user_feedback).value

-----------------------------------------------------------------------------
(* C32 *)

\* each of the three evaluation slots of s holds a successful result
AllEvaluationsSucceeded(s) ==
    \A slot \in {"business_evaluation", "quality_evaluation", "constraints_evaluation"} :
        /\ ~IsNone(s[slot])
        /\ s[slot].success = TRUE

\* C32: in every reachable state of a run, and in the state handed back to run(), an
\* estimation_result that is set comes with business_evaluation, quality_evaluation and
\* constraints_evaluation all set and successful.
C32_EstimateImpliesCompleteEvaluation ==
    /\ ~IsNone(state.estimation_result) => AllEvaluationsSucceeded(state)
    /\ (~IsNone(final_state) /\ ~IsNone(final_state.estimation_result))
          => AllEvaluationsSucceeded(final_state)

\* an estimate was produced after the primary parallel path faulted, and refined twice
C32_Witness ==
    /\ "primary_path" \in faults
    /\ ~IsNone(state.estimation_result)
    /\ AllEvaluationsSucceeded(state)
    /\ calls.refine_estimate = 2
    /\ state.estimation_result = EstimateResult(2)

\* a run whose evaluation set stays incomplete reaches the loop without an estimate
C32_WitnessNoEstimate ==
    /\ pc = "await_decision"
    /\ ~AllEvaluationsSucceeded(state)
    /\ IsNone(state.estimation_result)
    /\ calls.generate_estimate = 0

-----------------------------------------------------------------------------
(* C33 *)

RefinementError == "Refinement execution error: " \o NoneTypeError

\* C33: refine_estimate is called only while the state holds a successful estimate; a
\* refinement cycle entered without an estimate appends exactly one refinement error,
\* appends no snapshot, calls nothing and leaves iteration_count alone, but counts as a
\* loop iteration; the loop asks for at most 3 decisions and is left after the third.
C33_NoRefineWithoutEstimate ==
    /\ [][/\ CallsRefine =>
               /\ ~IsNone(state.estimation_result)
               /\ state.estimation_result.success = TRUE
          /\ (Refines /\ IsNone(state.estimation_result)) =>
               /\ state'.errors = Append(state.errors, RefinementError)
               /\ state'.iteration_history = state.iteration_history
               /\ state'.iteration_count = state.iteration_count
               /\ IsNone(state'.estimation_result)
               /\ calls' = calls
               /\ iteration' = iteration + 1
               /\ pc' = IF iteration' < max_iterations THEN "await_decision" ELSE "loop_exit"]_vars
    /\ [](/\ Len(decisions) <= max_iterations
          /\ iteration <= max_iterations
          /\ pc \in {"await_decision", "await_feedback"} => iteration < max_iterations)

\* three rejection cycles without an estimate: three refinement errors, no snapshot, no
\* refine call, and the loop is left
C33_Witness ==
    /\ pc = "loop_exit"
    /\ iteration = max_iterations
    /\ Len(decisions) = max_iterations
    /\ IsNone(state.estimation_result)
    /\ state.iteration_history = <<>>
    /\ calls.refine_estimate = 0
    /\ Len(state.errors) >= 3
    /\ \A i \in 0..2 : state.errors[Len(state.errors) - i] = RefinementError
    /\ ~state.user_approved

-----------------------------------------------------------------------------
(* C34 *)

EvaluatorCalls(c) == <<c.business, c.quality, c.constraints>>

C34_WitnessFallback ==
    /\ "primary_path" \in faults
    /\ EvaluatorCalls(calls) = <<2, 2, 2>>
    /\ calls.refine_estimate = 1

-----------------------------------------------------------------------------
(* C35 *)

ApprovedConsistently(s) == s.user_approved <=> s.current_step = "approved"

\* C35: in every reachable state user_approved is true exactly when current_step is
\* "approved"; and approval is terminal: once the state is approved the loop has been left,
\* no evaluator is called, no snapshot is appended and no field of the state changes, and the
\* state handed back to run() is that state.
C35_ApprovalIsTerminal ==
    /\ [](/\ ApprovedConsistently(state)
          /\ ~IsNone(final_state) => ApprovedConsistently(final_state)
          /\ state.user_approved =>
               /\ pc \in {"loop_exit", "returned", "done"}
               /\ Last(decisions) = "approve"
               /\ pc \in {"returned", "done"} => final_state = state)
    /\ [][state.user_approved => (state' = state /\ calls' = calls /\ decisions' = decisions)]_vars

\* the third decision approved a twice refined estimate and the state was handed back
C35_Witness ==
    /\ pc = "returned"
    /\ decisions = <<"other", "reject", "approve">>
    /\ final_state.user_approved
    /\ final_state.current_step = "approved"
    /\ Len(final_state.iteration_history) = 2
    /\ calls.refine_estimate = 2

-----------------------------------------------------------------------------
(* C36 *)

\* the state handed back to run() is approved and holds a successful estimate
TerminalStateApprovedWithEstimate ==
    /\ ~IsNone(final_state)
    /\ final_state.user_approved = TRUE
    /\ ~IsNone(final_state.estimation_result)
    /\ final_state.estimation_result.success = TRUE

\* C36: the result file and the session log exist only when the state handed back to run()
\* is approved and holds a successful estimate; a run that ends unapproved at the bound, or
\* approved without an estimate, is done with neither file written.
C36_FilesOnlyForApprovedEstimate ==
    /\ files \subseteq {"estimate.xlsx", "session_log.json"}
    /\ files # {} => (pc = "done" /\ TerminalStateApprovedWithEstimate)
    /\ (pc = "done" /\ ~final_state.user_approved /\ iteration = max_iterations) => files = {}
    /\ (pc = "done" /\ final_state.user_approved /\ IsNone(final_state.estimation_result))
          => files = {}

\* an approved run with an estimate has written both files
C36_Witness ==
    /\ pc = "done"
    /\ TerminalStateApprovedWithEstimate
    /\ files = {"estimate.xlsx", "session_log.json"}
    /\ iteration = 1

\* a run with an estimate has ended unapproved at the bound and written nothing
C36_WitnessUnapproved ==
    /\ pc = "done"
    /\ ~final_state.user_approved
    /\ iteration = max_iterations
    /\ final_state.estimation_result = EstimateResult(2)
    /\ files = {}

\* a run without an estimate was approved and has written nothing
C36_WitnessNoEstimate ==
    /\ pc = "done"
    /\ final_state.user_approved
    /\ IsNone(final_state.estimation_result)
    /\ files = {}

-----------------------------------------------------------------------------
(* C37 *)

CanonicalOrder == <<"business", "quality", "constraints">>

\* the results res in another order of completion
Reorderings(res) ==
    { [i \in 1..Len(res) |-> res[p[i]]] :
        p \in { q \in [1..Len(res) -> 1..Len(res)] :
                  \A i, j \in 1..Len(res) : q[i] = q[j] => i = j } }

\* C37: on the primary parallel path the entries appended to session_logs and to errors are
\* in the order Business, Quality, Constraints whatever the order in which the three calls
\* completed, and the resulting state is the same for every order of completion.
C37_ReflectionOrderIsFixed ==
    pc = "reflected" =>
        LET returned(a) == futures[a].kind = "returned"
            failed(a) == returned(a) /\ ~GetSuccess(futures[a].value)
            logged == SelectSeq(CanonicalOrder, returned)
            errored == SelectSeq(CanonicalOrder, failed)
        IN /\ Len(state.session_logs) = Len(logged)
           /\ \A i \in 1..Len(logged) :
                  state.session_logs[i].agent_name = AgentName(logged[i])
           /\ state.errors
                = [i \in 1..Len(errored) |->
                      AgentName(errored[i]) \o ": " \o futures[errored[i]].value.error]
           /\ \A other \in Reorderings(results) :
                  reflect_primary(create_initial_state, other) = state

\* Constraints completed first and Business last, Business and Constraints with a failure:
\* the log and the errors are in the order Business, (Quality,) Constraints all the same
C37_Witness ==
    /\ pc = "reflected"
    /\ Len(results) = 3
    /\ results[1].agent_type = "constraints"
    /\ results[3].agent_type = "business"
    /\ state.session_logs[1].agent_name = "BusinessRequirementsAgent"
    /\ state.session_logs[3].agent_name = "ConstraintsAgent"
    /\ state.errors = <<"BusinessRequirementsAgent: evaluation failed",
                        "ConstraintsAgent: evaluation failed">>

\* the same in a whole run, where the order of completion is the order of the Collect steps
C37_JoinInRunIgnoresOrder ==
    [][(pc = "parallel" /\ pc' = "estimation") =>
          \A other \in Reorderings(results) : reflect_primary(state, other) = state']_vars

-----------------------------------------------------------------------------
(* C38 *)

\* the answers to the decision prompt that are empty once input().strip() is applied
EmptyAnswers == { raw \in RawResponses \cup ModificationRequests : strip(raw) = <<>> }

\* the step answers the decision prompt with an empty input
AnswersEmpty ==
    /\ pc = "await_decision"
    /\ decisions' = Append(decisions, "other")
    /\ \E raw \in EmptyAnswers : \E outcome \in EstimationOutcomes \cup StackOutcomes :
           OtherResponse(raw, outcome)

\* C38: an empty input at the decision prompt is handled as a rejection with empty feedback:
\* user_approved is false afterwards, a refinement cycle runs with the empty text as its
\* feedback (the snapshot is tagged with it and refine_estimate gets it, when there is an
\* estimate to refine), and one of the 3 loop iterations is used up.
C38_EmptyAnswerIsEmptyRejection ==
    [][AnswersEmpty =>
          /\ state'.user_approved = FALSE
          /\ state'.user_feedback = <<>>
          /\ state'.current_step \in {"refinement_complete", "needs_refinement"}
          /\ iteration' = iteration + 1
          /\ iteration' <= max_iterations
          /\ pc' = IF iteration' < max_iterations THEN "await_decision" ELSE "loop_exit"
          /\ ~IsNone(state.estimation_result) =>
                /\ TakesSnapshot
                /\ Last(state'.iteration_history).user_feedback = <<>>
                /\ CallsRefine
                /\ calls'.last_refine.feedback = <<>>
          /\ IsNone(state.estimation_result) =>
                state'.errors = Append(state.errors, RefinementError)]_vars

\* three empty answers have used up the loop: three refinements with empty feedback
C38_Witness ==
    /\ pc = "loop_exit"
    /\ decisions = <<"other", "other", "other">>
    /\ iteration = max_iterations
    /\ ~state.user_approved
    /\ state.user_feedback = <<>>
    /\ calls.refine_estimate = 3
    /\ calls.last_refine.feedback = <<>>
    /\ Len(state.iteration_history) = 3
    /\ \A i \in 1..3 : state.iteration_history[i].user_feedback = <<>>
    /\ state.estimation_result = EstimateWithStack(Text_CachedStack)

=============================================================================
